---- MODULE Spec2Model ----
(***************************************************************************)
(* A model of the ingress2httproute controller: the reconciler of          *)
(* internal/controller/ingress_controller.go and its helpers               *)
(* (extractHostnames, hostnameMatches, findMatchingGateways, isOwnedBy,    *)
(* isEqual, ...).  One Reconcile pass turns one Ingress into one HTTPRoute *)
(* per hostname and applies each with reconcileHTTPRoute.                  *)
(*                                                                         *)
(* A Go string is modelled as a sequence of one-character strings, so that *)
(* HasPrefix, HasSuffix, EqualFold, ReplaceAll and Sprintf are computed on *)
(* the characters as the code computes them.  A Go pointer or optional     *)
(* field is a sequence of length 0 (nil) or 1.                             *)
(***************************************************************************)
EXTENDS Integers, Sequences, FiniteSets, TLC

----------------------------------------------------------------------------
(* Bounds of the model. *)

\* The most rules one Ingress of the main specification carries.
MaxRules == 2

\* The most Reconcile passes started in one behaviour.
MaxPasses == 2

\* The most changes made to the cluster by others than the controller.
MaxEnv == 1

\* The longest application hostname of the matcher specification.
MaxHostLen == 3

\* The longest suffix of a listener pattern of the matcher specification.
MaxPatLen == 2

----------------------------------------------------------------------------
(* Go's strings package, on sequences of characters. *)

None == <<>>

Some(x) == <<x>>

HasPrefix(s, prefix) ==
    /\ Len(prefix) <= Len(s)
    /\ SubSeq(s, 1, Len(prefix)) = prefix

HasSuffix(s, suffix) ==
    /\ Len(suffix) <= Len(s)
    /\ SubSeq(s, Len(s) - Len(suffix) + 1, Len(s)) = suffix

TrimPrefix(s, prefix) ==
    IF HasPrefix(s, prefix) THEN SubSeq(s, Len(prefix) + 1, Len(s)) ELSE s

UpperLetters ==
    <<"A", "B", "C", "D", "E", "F", "G", "H", "I", "J", "K", "L", "M",
      "N", "O", "P", "Q", "R", "S", "T", "U", "V", "W", "X", "Y", "Z">>

LowerLetters ==
    <<"a", "b", "c", "d", "e", "f", "g", "h", "i", "j", "k", "l", "m",
      "n", "o", "p", "q", "r", "s", "t", "u", "v", "w", "x", "y", "z">>

\* The simple case folding of one character.
FoldChar(c) ==
    IF \E k \in 1..Len(UpperLetters) : UpperLetters[k] = c
    THEN LowerLetters[CHOOSE k \in 1..Len(UpperLetters) : UpperLetters[k] = c]
    ELSE c

ToLower(s) == [k \in 1..Len(s) |-> FoldChar(s[k])]

EqualFold(s, t) ==
    /\ Len(s) = Len(t)
    /\ \A k \in 1..Len(s) : FoldChar(s[k]) = FoldChar(t[k])

\* strings.ReplaceAll for a one-character old string.
RECURSIVE ReplaceAll(_, _, _)
ReplaceAll(s, old, new) ==
    IF s = <<>> THEN <<>>
    ELSE (IF Head(s) = old THEN new ELSE <<Head(s)>>)
             \o ReplaceAll(Tail(s), old, new)

\* The concatenation of a sequence of sequences.
RECURSIVE Concat(_)
Concat(seqs) ==
    IF seqs = <<>> THEN <<>> ELSE Head(seqs) \o Concat(Tail(seqs))

\* fmt.Sprintf("%s/%s/%s/%s/%s", a, b, c, d, e)
Sprintf5(a, b, c, d, e) ==
    a \o <<"/">> \o b \o <<"/">> \o c \o <<"/">> \o d \o <<"/">> \o e

----------------------------------------------------------------------------
(* Hostnames and route names. *)

\* internal/controller: filterRules drops the rules without a hostname.
RECURSIVE filterRules(_)
filterRules(rules) ==
    IF rules = <<>> THEN <<>>
    ELSE (IF Head(rules).host = <<>> THEN <<>> ELSE <<Head(rules)>>)
             \o filterRules(Tail(rules))

RECURSIVE extractHostnamesFrom(_, _)
extractHostnamesFrom(rules, hostnames) ==
    IF rules = <<>> THEN hostnames
    ELSE LET host == Head(rules).host
         IN  extractHostnamesFrom(
                 Tail(rules),
                 IF \E k \in 1..Len(hostnames) : hostnames[k] = host
                 THEN hostnames
                 ELSE Append(hostnames, host))

\* The distinct hosts of the rules, in order of first appearance.
extractHostnames(rules) == extractHostnamesFrom(rules, <<>>)

\* hostnameMatches without the exclusion of the wildcard's own domain.
hostnameMatchesSuffix(ingressHost, listenerHost) ==
    IF HasPrefix(listenerHost, <<"*", ".">>)
    THEN HasSuffix(ingressHost, TrimPrefix(listenerHost, <<"*", ".">>))
    ELSE EqualFold(ingressHost, listenerHost)

hostnameMatches(ingressHost, listenerHost) ==
    IF HasPrefix(listenerHost, <<"*", ".">>)
    THEN LET fqdn == TrimPrefix(listenerHost, <<"*", ".">>)
         IN  ~EqualFold(ingressHost, fqdn) /\ HasSuffix(ingressHost, fqdn)
    ELSE EqualFold(ingressHost, listenerHost)

generateHTTPRouteName(ingressName, hostname) ==
    LET cleanHostname ==
            ReplaceAll(ReplaceAll(hostname, ".", <<"-">>), "*",
                       <<"w", "i", "l", "d", "c", "a", "r", "d">>)
    IN  ingressName \o <<"-">> \o cleanHostname

----------------------------------------------------------------------------
(* The API objects.                                                        *)
(*   Ingress  [name, namespace, uid, rules, defaultBackend]                *)
(*     rule     [host, http]     http: None or Some(sequence of paths)     *)
(*     path     [path, pathType, backend]                                  *)
(*     backend  [resource, service]                                        *)
(*   Gateway  [namespace, name, listeners]                                 *)
(*     listener [name, hostname, from]                                     *)
(*   Service  [namespace, name, ports]                                     *)
(*   HTTPRoute [ownerReferences, spec, resourceVersion]                    *)
(***************************************************************************)

\* gatewayv1.NamespacesFromAll, NamespacesFromSame, NamespacesFromSelector
NamespacesFromAll == "All"

NamespacesFromSame == "Same"

NamespacesFromSelector == "Selector"

\* The group and kind of a Gateway ("gateway.networking.k8s.io", "Gateway"),
\* abbreviated.
GatewayGroup == <<"g", "w">>

GatewayKind == <<"G">>

\* The kind of a Service backend ("Service"), abbreviated.
ServiceKind == <<"S">>

\* networkingv1.PathTypeExact, PathTypePrefix, PathTypeImplementationSpecific
PathTypeExact == "Exact"

PathTypePrefix == "Prefix"

PathTypeImplementationSpecific == "ImplementationSpecific"

\* gatewayv1.PathMatchExact, PathMatchPathPrefix, PathMatchRegularExpression
PathMatchExact == "Exact"

PathMatchPathPrefix == "PathPrefix"

PathMatchRegularExpression == "RegularExpression"

\* createOwnerReference without the Controller flag.
createOwnerReferenceUncontrolled(ingress) ==
    [apiVersion |-> "networking.k8s.io/v1",
     kind |-> "Ingress",
     name |-> ingress.name,
     uid |-> ingress.uid,
     controller |-> None,
     blockOwnerDeletion |-> Some(TRUE)]

createOwnerReference(ingress) ==
    [apiVersion |-> "networking.k8s.io/v1",
     kind |-> "Ingress",
     name |-> ingress.name,
     uid |-> ingress.uid,
     controller |-> Some(TRUE),
     blockOwnerDeletion |-> Some(TRUE)]

createParentRef(gateway, listener) ==
    [group |-> Some(GatewayGroup),
     kind |-> Some(GatewayKind),
     namespace |-> Some(gateway.namespace),
     name |-> gateway.name,
     sectionName |-> Some(listener.name)]

createPathMatch(path) ==
    [type |-> IF path.pathType = None THEN None
              ELSE IF path.pathType[1] = PathTypeExact
                   THEN Some(PathMatchExact)
              ELSE IF path.pathType[1] = PathTypePrefix
                   THEN Some(PathMatchPathPrefix)
              ELSE IF path.pathType[1] = PathTypeImplementationSpecific
                   THEN Some(PathMatchRegularExpression)
              ELSE None,
     value |-> Some(path.path)]

----------------------------------------------------------------------------
(* encoding/json: json.Marshal of the values isEqual compares, as a        *)
(* sequence of tokens.  A nil pointer and an empty slice of an omitempty   *)
(* field leave no token; a pointer to an empty string leaves its field.    *)
(***************************************************************************)

JString(s) == <<"\"">> \o s \o <<"\"">>

JField(key, value) == <<key, ":">> \o value \o <<",">>

JOptional(key, pointer, value) ==
    IF pointer = None THEN <<>> ELSE JField(key, value)

JObject(fields) == <<"{">> \o Concat(fields) \o <<"}">>

JArray(items) ==
    <<"[">> \o Concat([k \in 1..Len(items) |-> items[k] \o <<",">>]) \o <<"]">>

JOmitEmpty(key, items) ==
    IF items = <<>> THEN <<>> ELSE JField(key, JArray(items))

MarshalParentRef(ref) ==
    JObject(<<
        JOptional("group", ref.group, JString(Concat(ref.group))),
        JOptional("kind", ref.kind, JString(Concat(ref.kind))),
        JOptional("namespace", ref.namespace, JString(Concat(ref.namespace))),
        JField("name", JString(ref.name)),
        JOptional("sectionName", ref.sectionName,
                  JString(Concat(ref.sectionName)))>>)

MarshalBackendRef(ref) ==
    JObject(<<
        JOptional("group", ref.group, JString(Concat(ref.group))),
        JOptional("kind", ref.kind, JString(Concat(ref.kind))),
        JField("name", JString(ref.name)),
        JOptional("namespace", ref.namespace, JString(Concat(ref.namespace))),
        JOptional("port", ref.port,
                  IF ref.port = None THEN <<>> ELSE <<ToString(ref.port[1])>>),
        JOptional("weight", ref.weight,
                  IF ref.weight = None THEN <<>>
                  ELSE <<ToString(ref.weight[1])>>)>>)

MarshalPathMatch(pathMatch) ==
    JObject(<<
        JOptional("type", pathMatch.type, Concat(
            [k \in 1..Len(pathMatch.type) |-> <<"\"", pathMatch.type[k], "\"">>])),
        JOptional("value", pathMatch.value, JString(Concat(pathMatch.value)))>>)

MarshalMatch(match) ==
    JObject(<<
        JOptional("path", match.path, Concat(
            [k \in 1..Len(match.path) |-> MarshalPathMatch(match.path[k])]))>>)

MarshalRule(rule) ==
    JObject(<<
        JOmitEmpty("matches",
            [k \in 1..Len(rule.matches) |-> MarshalMatch(rule.matches[k])]),
        JOmitEmpty("backendRefs",
            [k \in 1..Len(rule.backendRefs) |->
                MarshalBackendRef(rule.backendRefs[k])])>>)

MarshalSpec(spec) ==
    JObject(<<
        JOmitEmpty("parentRefs",
            [k \in 1..Len(spec.parentRefs) |->
                MarshalParentRef(spec.parentRefs[k])]),
        JOmitEmpty("hostnames",
            [k \in 1..Len(spec.hostnames) |-> JString(spec.hostnames[k])]),
        JOmitEmpty("rules",
            [k \in 1..Len(spec.rules) |-> MarshalRule(spec.rules[k])])>>)

\* json.Marshal of an HTTPRouteSpec or of an HTTPBackendRef.
Marshal(v) ==
    IF "parentRefs" \in DOMAIN v THEN MarshalSpec(v) ELSE MarshalBackendRef(v)

\* isEqual comparing the two values by their addresses, which never agree.
isEqualByAddress(a, b) == FALSE

isEqual(a, b) == Marshal(a) = Marshal(b)

containsBackendRef(backendRefs, ref) ==
    \E k \in 1..Len(backendRefs) : isEqual(backendRefs[k], ref)

\* isOwnedBy without the comparison of the names: any Ingress is the owner.
isOwnedByAnyIngress(metadata, owner) ==
    \E k \in 1..Len(metadata.ownerReferences) :
        LET reference == metadata.ownerReferences[k]
        IN  /\ reference.apiVersion = owner.apiVersion
            /\ reference.kind = owner.kind

\* isOwnedBy with the comparison of the UIDs as well.
isOwnedByUID(metadata, owner) ==
    \E k \in 1..Len(metadata.ownerReferences) :
        LET reference == metadata.ownerReferences[k]
        IN  /\ reference.apiVersion = owner.apiVersion
            /\ reference.kind = owner.kind
            /\ reference.name = owner.name
            /\ reference.uid = owner.uid

isOwnedBy(metadata, owner) ==
    \E k \in 1..Len(metadata.ownerReferences) :
        LET reference == metadata.ownerReferences[k]
        IN  /\ reference.apiVersion = owner.apiVersion
            /\ reference.kind = owner.kind
            /\ reference.name = owner.name

----------------------------------------------------------------------------
(* Gateway selection. *)

isListenerAccessibleFromNamespace(listener, gatewayNamespace, ingressNamespace) ==
    LET nsSelector ==
            IF listener.from # None THEN listener.from[1]
            ELSE NamespacesFromSame
    IN  \/ nsSelector = NamespacesFromAll
        \/ (nsSelector = NamespacesFromSame
                /\ gatewayNamespace = ingressNamespace)

\* The (gateway, listener) pairs in the order the two nested loops visit them.
RECURSIVE ListenersOf(_)
ListenersOf(gateways) ==
    IF gateways = <<>> THEN <<>>
    ELSE [k \in 1..Len(Head(gateways).listeners) |->
             [gateway |-> Head(gateways),
              listener |-> Head(gateways).listeners[k]]]
         \o ListenersOf(Tail(gateways))

\* The loop body of findMatchingGateways over the remaining listeners:
\* result is the slice built so far, parentRefMap the keys already in it.
RECURSIVE findMatchingGatewaysFrom(_, _, _, _, _)
findMatchingGatewaysFrom(ingressNamespace, hostname, pairs, result, parentRefMap) ==
    IF pairs = <<>> THEN result
    ELSE LET gateway == Head(pairs).gateway
             listener == Head(pairs).listener
             matches ==
                 IF listener.hostname = None THEN TRUE
                 ELSE hostnameMatches(hostname, listener.hostname[1])
             parentRef == createParentRef(gateway, listener)
             key == Sprintf5(parentRef.group[1], parentRef.kind[1],
                             parentRef.namespace[1], parentRef.name,
                             parentRef.sectionName[1])
             add ==
                 /\ isListenerAccessibleFromNamespace(
                        listener, gateway.namespace, ingressNamespace)
                 /\ matches
                 /\ key \notin parentRefMap
         IN  findMatchingGatewaysFrom(
                 ingressNamespace, hostname, Tail(pairs),
                 IF add THEN Append(result, parentRef) ELSE result,
                 IF add THEN parentRefMap \cup {key} ELSE parentRefMap)

\* findMatchingGateways keeping the most specific listeners only: the exact
\* ones, or else the wildcard ones, or else those without a hostname.
findMostSpecificGateways(ingressNamespace, hostname, gateways) ==
    LET pairs == ListenersOf(gateways)
        isWildcard(pair) ==
            /\ pair.listener.hostname # None
            /\ HasPrefix(pair.listener.hostname[1], <<"*", ".">>)
        isExact(pair) == pair.listener.hostname # None /\ ~isWildcard(pair)
        isCatchAll(pair) == pair.listener.hostname = None
        exact == findMatchingGatewaysFrom(
                     ingressNamespace, hostname, SelectSeq(pairs, isExact),
                     <<>>, {})
        wildcard == findMatchingGatewaysFrom(
                        ingressNamespace, hostname,
                        SelectSeq(pairs, isWildcard), <<>>, {})
        catchAll == findMatchingGatewaysFrom(
                        ingressNamespace, hostname,
                        SelectSeq(pairs, isCatchAll), <<>>, {})
    IN  IF exact # <<>> THEN exact
        ELSE IF wildcard # <<>> THEN wildcard
        ELSE catchAll

findMatchingGateways(ingressNamespace, hostname, gateways) ==
    findMatchingGatewaysFrom(
        ingressNamespace, hostname, ListenersOf(gateways), <<>>, {})

RECURSIVE findCatchAllGatewaysFrom(_, _)
findCatchAllGatewaysFrom(ingressNamespace, pairs) ==
    IF pairs = <<>> THEN <<>>
    ELSE LET gateway == Head(pairs).gateway
             listener == Head(pairs).listener
             accepted ==
                 /\ isListenerAccessibleFromNamespace(
                        listener, gateway.namespace, ingressNamespace)
                 /\ \/ listener.hostname = None
                    \/ HasPrefix(listener.hostname[1], <<"*">>)
         IN  (IF accepted THEN <<createParentRef(gateway, listener)>> ELSE <<>>)
                 \o findCatchAllGatewaysFrom(ingressNamespace, Tail(pairs))

\* findCatchAllGateways without the test of the listener's hostname.
findCatchAllGatewaysAnyHostname(ingressNamespace, gateways) ==
    LET accessible(pair) ==
            isListenerAccessibleFromNamespace(
                pair.listener, pair.gateway.namespace, ingressNamespace)
        pairs == SelectSeq(ListenersOf(gateways), accessible)
    IN  [k \in 1..Len(pairs) |->
            createParentRef(pairs[k].gateway, pairs[k].listener)]

findCatchAllGateways(ingressNamespace, gateways) ==
    findCatchAllGatewaysFrom(ingressNamespace, ListenersOf(gateways))

----------------------------------------------------------------------------
(* Backends and rules.  A function that returns (value, error) is a record *)
(* [err, ...]: err is TRUE when the Go error is not nil.                   *)
(***************************************************************************)

\* portNamed without the comparison of the names: the port of the first
\* service port.
portOfFirst(ports, portName) ==
    IF ports = <<>> THEN None ELSE Some(Head(ports).port)

\* The port of the first service port named portName, None when none is.
RECURSIVE portNamed(_, _)
portNamed(ports, portName) ==
    IF ports = <<>> THEN None
    ELSE IF Head(ports).name = portName THEN Some(Head(ports).port)
    ELSE portNamed(Tail(ports), portName)

\* mapBackendRef without the weight of the backend ref.
mapBackendRefUnweighted(svcs, namespace, ref) ==
    LET emptyRef ==
            [group |-> None, kind |-> None, namespace |-> None,
             name |-> <<>>, port |-> None, weight |-> None]
    IN  IF ref.resource # None
        THEN [err |-> FALSE,
              ref |-> [emptyRef EXCEPT
                          !.group = ref.resource[1].apiGroup,
                          !.kind = Some(ref.resource[1].kind),
                          !.namespace = Some(namespace),
                          !.name = ref.resource[1].name]]
        ELSE IF ref.service # None
        THEN LET service == ref.service[1]
                 objectRef ==
                     [emptyRef EXCEPT
                         !.group = Some(<<>>),
                         !.kind = Some(ServiceKind),
                         !.namespace = Some(namespace),
                         !.name = service.name]
                 found == {svc \in svcs : /\ svc.namespace = namespace
                                          /\ svc.name = service.name}
             IN  IF service.port.number # 0
                 THEN [err |-> FALSE,
                       ref |-> [objectRef EXCEPT
                                   !.port = Some(service.port.number)]]
                 ELSE IF service.port.name # <<>>
                 THEN IF found = {}
                      THEN [err |-> TRUE, ref |-> emptyRef]
                      ELSE [err |-> FALSE,
                            ref |-> [objectRef EXCEPT
                                        !.port = portNamed(
                                            (CHOOSE svc \in found : TRUE).ports,
                                            service.port.name)]]
                 ELSE [err |-> FALSE, ref |-> objectRef]
        ELSE [err |-> FALSE, ref |-> emptyRef]

\* svcs: the Services of the store, read with r.Get.
mapBackendRef(svcs, namespace, ref) ==
    LET emptyRef ==
            [group |-> None, kind |-> None, namespace |-> None,
             name |-> <<>>, port |-> None, weight |-> Some(1)]
    IN  IF ref.resource # None
        THEN [err |-> FALSE,
              ref |-> [emptyRef EXCEPT
                          !.group = ref.resource[1].apiGroup,
                          !.kind = Some(ref.resource[1].kind),
                          !.namespace = Some(namespace),
                          !.name = ref.resource[1].name]]
        ELSE IF ref.service # None
        THEN LET service == ref.service[1]
                 objectRef ==
                     [emptyRef EXCEPT
                         !.group = Some(<<>>),
                         !.kind = Some(ServiceKind),
                         !.namespace = Some(namespace),
                         !.name = service.name]
                 found == {svc \in svcs : /\ svc.namespace = namespace
                                          /\ svc.name = service.name}
             IN  IF service.port.number # 0
                 THEN [err |-> FALSE,
                       ref |-> [objectRef EXCEPT
                                   !.port = Some(service.port.number)]]
                 ELSE IF service.port.name # <<>>
                 THEN IF found = {}
                      THEN [err |-> TRUE, ref |-> emptyRef]
                      ELSE [err |-> FALSE,
                            ref |-> [objectRef EXCEPT
                                        !.port = portNamed(
                                            (CHOOSE svc \in found : TRUE).ports,
                                            service.port.name)]]
                 ELSE [err |-> FALSE, ref |-> objectRef]
        ELSE [err |-> FALSE, ref |-> emptyRef]

\* The HTTPRoute rules of one Ingress rule; defaultBackendRef is None or
\* Some(backend ref).
rulesOfIngressRule(svcs, namespace, rule, defaultBackendRef) ==
    IF rule.http # None
    THEN [k \in 1..Len(rule.http[1]) |->
             LET path == rule.http[1][k]
                 mapped == mapBackendRef(svcs, namespace, path.backend)
                 backendRefs ==
                     IF /\ defaultBackendRef # None
                        /\ ~containsBackendRef(<<mapped.ref>>, defaultBackendRef[1])
                     THEN <<mapped.ref, defaultBackendRef[1]>>
                     ELSE <<mapped.ref>>
             IN  [err |-> mapped.err,
                  rule |-> [matches |-> <<[path |-> Some(createPathMatch(path))]>>,
                            backendRefs |-> backendRefs]]]
    ELSE IF defaultBackendRef # None
    THEN <<[err |-> FALSE,
            rule |-> [matches |-> <<>>,
                      backendRefs |-> <<defaultBackendRef[1]>>]]>>
    ELSE <<>>

createHTTPRouteRules(svcs, namespace, rules, defaultBackendRef) ==
    LET made ==
            Concat([k \in 1..Len(rules) |->
                rulesOfIngressRule(svcs, namespace, rules[k], defaultBackendRef)])
    IN  IF \E k \in 1..Len(made) : made[k].err
        THEN [err |-> TRUE, rules |-> <<>>]
        ELSE [err |-> FALSE, rules |-> [k \in 1..Len(made) |-> made[k].rule]]

\* createDefaultBackendSpec without the error for an empty list of
\* ParentRefs.
createDefaultBackendSpecUnattached(ingressNamespace, backendRef, gateways) ==
    [err |-> FALSE,
     spec |-> [parentRefs |-> findCatchAllGateways(ingressNamespace, gateways),
               hostnames |-> <<>>,
               rules |-> <<[matches |-> <<>>,
                            backendRefs |-> <<backendRef>>]>>]]

createDefaultBackendSpec(ingressNamespace, backendRef, gateways) ==
    LET parentRefs == findCatchAllGateways(ingressNamespace, gateways)
    IN  IF Len(parentRefs) = 0
        THEN [err |-> TRUE,
              spec |-> [parentRefs |-> <<>>, hostnames |-> <<>>, rules |-> <<>>]]
        ELSE [err |-> FALSE,
              spec |-> [parentRefs |-> parentRefs,
                        hostnames |-> <<>>,
                        rules |-> <<[matches |-> <<>>,
                                     backendRefs |-> <<backendRef>>]>>]]

\* matchingRules that stops at the first rule of the hostname.
matchingRulesFirst(rules, hostname) ==
    LET of == {k \in 1..Len(rules) : rules[k].host = hostname}
    IN  IF of = {} THEN <<>>
        ELSE <<rules[CHOOSE k \in of : \A j \in of : k <= j]>>

\* The rules of the Ingress whose host is the hostname, in order.
RECURSIVE matchingRules(_, _)
matchingRules(rules, hostname) ==
    IF rules = <<>> THEN <<>>
    ELSE (IF Head(rules).host = hostname THEN <<Head(rules)>> ELSE <<>>)
             \o matchingRules(Tail(rules), hostname)

----------------------------------------------------------------------------
(* The comparisons.  No function of Reconcile calls them.                  *)
(***************************************************************************)

\* The characters of the model in the order of their bytes.
ByteOrder ==
    <<"*", "-", ".", "/", "G", "S", "a", "b", "c", "d", "e", "f", "g", "h", "i", "j",
      "k", "l", "m", "n", "o", "p", "q", "r", "s", "t", "u", "v", "w", "x",
      "y", "z">>

ByteOf(c) == CHOOSE k \in 1..Len(ByteOrder) : ByteOrder[k] = c

\* strings.Compare: -1, 0 or 1.
RECURSIVE Compare(_, _)
Compare(a, b) ==
    IF a = <<>> /\ b = <<>> THEN 0
    ELSE IF a = <<>> THEN -1
    ELSE IF b = <<>> THEN 1
    ELSE IF Head(a) = Head(b) THEN Compare(Tail(a), Tail(b))
    ELSE IF ByteOf(Head(a)) < ByteOf(Head(b)) THEN -1
    ELSE 1

\* The string a pointer points to, empty for nil.
OrEmpty(pointer) == IF pointer = None THEN <<>> ELSE pointer[1]

compareParentRef(a, b) ==
    IF Compare(OrEmpty(a.group), OrEmpty(b.group)) # 0
    THEN Compare(OrEmpty(a.group), OrEmpty(b.group))
    ELSE IF Compare(OrEmpty(a.kind), OrEmpty(b.kind)) # 0
    THEN Compare(OrEmpty(a.kind), OrEmpty(b.kind))
    ELSE IF Compare(OrEmpty(a.namespace), OrEmpty(b.namespace)) # 0
    THEN Compare(OrEmpty(a.namespace), OrEmpty(b.namespace))
    ELSE IF Compare(a.name, b.name) # 0
    THEN Compare(a.name, b.name)
    ELSE Compare(OrEmpty(a.sectionName), OrEmpty(b.sectionName))

compareHTTPRouteRule(a, b) ==
    LET pathOf(rule) ==
            IF Len(rule.matches) > 0 /\ rule.matches[1].path # None
            THEN OrEmpty(rule.matches[1].path[1].value)
            ELSE <<>>
        backendOf(rule) ==
            IF Len(rule.backendRefs) > 0 THEN rule.backendRefs[1].name
            ELSE <<>>
    IN  IF Compare(pathOf(a), pathOf(b)) # 0
        THEN Compare(pathOf(a), pathOf(b))
        ELSE Compare(backendOf(a), backendOf(b))

----------------------------------------------------------------------------
(* The cluster and the reconciler.                                         *)
(***************************************************************************)

VARIABLES
    ingresses,        \* name -> None or Some(Ingress): the Ingresses stored
    gateways,         \* the Gateways, in the order r.List returns them
    services,         \* the set of Services stored
    routes,           \* name -> HTTPRoute, for the HTTPRoutes stored
    RequireHostname,  \* IngressReconciler.RequireHostname
    pass,             \* name -> the Reconcile pass of that Ingress
    settled,          \* name -> the last pass ended without error and
                      \*         nothing has changed since
    calls,            \* route name -> the last reconcileHTTPRoute call that
                      \*         returned for it: its owner, spec and result
    queue,            \* the names with a Reconcile request in the work queue
    npasses,          \* the passes started
    nenv              \* the changes made by others than the controller

vars ==
    <<ingresses, gateways, services, routes, RequireHostname, pass, settled,
      calls, queue, npasses, nenv>>

\* The namespace of the Ingresses, and another one.
IngressNamespace == <<"d">>

OtherNamespace == <<"n">>

\* The names of the Ingresses.
IngressNames == {<<"i">>}

\* A pass that has not started.
IdlePass ==
    [pc |-> "idle", ingress |-> None, gateways |-> <<>>, owner |-> None,
     defaultBackendRef |-> None, hostnames |-> <<>>, next |-> 1,
     pending |-> None, err |-> FALSE, writes |-> 0, applied |-> <<>>,
     repeat |-> FALSE]

\* The pass p after its iteration over hostnames[p.next] (or after its
\* catch-all route): the next hostname, or the end of the pass.
Advance(p) ==
    [p EXCEPT !.next = p.next + 1,
              !.pending = None,
              !.pc = IF p.next + 1 > Len(p.hostnames) THEN "done" ELSE "loop"]

\* The pass p ended by `return ctrl.Result{}, err`.
Failed(p) == [p EXCEPT !.pc = "done", !.err = TRUE, !.pending = None]

\* The pass p ended by a return of the error of a read that found nothing.
SucceededWithError(p) ==
    [p EXCEPT !.pc = "done", !.err = TRUE, !.pending = None]

\* The pass p ended by `return ctrl.Result{}, nil`.
Succeeded(p) == [p EXCEPT !.pc = "done", !.err = FALSE, !.pending = None]

\* r.Get(ctx, name, &httpRoute) of reconcileHTTPRoute: the pass waits to
\* write, holding what it read.
GetRoute(p, name, hostname, spec) ==
    [p EXCEPT !.pc = "apply",
              !.pending = Some([name |-> name,
                                hostname |-> hostname,
                                spec |-> spec,
                                found |-> IF name \in DOMAIN routes
                                          THEN Some(routes[name])
                                          ELSE None])]

\* Reconcile, from its start to its first reconcileHTTPRoute: it reads the
\* Ingress, lists the Gateways, maps the default backend and collects the
\* hostnames.
StartPass(n, p) ==
    IF ingresses[n] = None THEN Succeeded(p)
    ELSE
    LET ingress == ingresses[n][1]
        namespace == ingress.namespace
        mappedDefault ==
            IF ingress.defaultBackend = None
            THEN [err |-> FALSE, ref |-> None]
            ELSE LET m == mapBackendRef(services, namespace,
                                        ingress.defaultBackend[1])
                 IN  [err |-> m.err, ref |-> Some(m.ref)]
        hostnames == extractHostnames(ingress.rules)
        q == [p EXCEPT !.ingress = Some(ingress),
                       !.gateways = gateways,
                       !.owner = Some(createOwnerReference(ingress))]
    IN  IF Len(gateways) = 0 THEN Succeeded(q)
        ELSE IF mappedDefault.err THEN Failed(q)
        ELSE IF Len(hostnames) = 0
        THEN IF ~RequireHostname /\ mappedDefault.ref # None
             THEN LET made == createDefaultBackendSpec(
                                  namespace, mappedDefault.ref[1], gateways)
                  IN  IF made.err
                      THEN Failed([q EXCEPT
                                      !.defaultBackendRef = mappedDefault.ref])
                      ELSE GetRoute(
                               [q EXCEPT
                                   !.defaultBackendRef = mappedDefault.ref],
                               n, None, made.spec)
             ELSE Succeeded([q EXCEPT !.defaultBackendRef = mappedDefault.ref])
        ELSE [q EXCEPT !.pc = "loop",
                       !.defaultBackendRef = mappedDefault.ref,
                       !.hostnames = hostnames,
                       !.next = 1]

\* Iterate with a return, instead of a continue, for a hostname without
\* ParentRefs.
IterateReturning(n, p) ==
    LET ingress == p.ingress[1]
        hostname == p.hostnames[p.next]
        made == createHTTPRouteRules(
                    services, ingress.namespace,
                    matchingRules(ingress.rules, hostname),
                    p.defaultBackendRef)
        parentRefs ==
            findMatchingGateways(ingress.namespace, hostname, p.gateways)
        spec == [parentRefs |-> parentRefs,
                 hostnames |-> <<hostname>>,
                 rules |-> made.rules]
    IN  IF made.err THEN Failed(p)
        ELSE IF Len(made.rules) = 0 THEN Advance(p)
        ELSE IF Len(parentRefs) = 0 THEN Succeeded(p)
        ELSE GetRoute(p, generateHTTPRouteName(ingress.name, hostname),
                      Some(hostname), spec)

\* One iteration of the loop over the hostnames, up to the r.Get of
\* reconcileHTTPRoute.
Iterate(n, p) ==
    LET ingress == p.ingress[1]
        hostname == p.hostnames[p.next]
        made == createHTTPRouteRules(
                    services, ingress.namespace,
                    matchingRules(ingress.rules, hostname),
                    p.defaultBackendRef)
        parentRefs ==
            findMatchingGateways(ingress.namespace, hostname, p.gateways)
        spec == [parentRefs |-> parentRefs,
                 hostnames |-> <<hostname>>,
                 rules |-> made.rules]
    IN  IF made.err THEN Failed(p)
        ELSE IF Len(made.rules) = 0 THEN Advance(p)
        ELSE IF Len(parentRefs) = 0 THEN Advance(p)
        ELSE GetRoute(p, generateHTTPRouteName(ingress.name, hostname),
                      Some(hostname), spec)

\* reconcileHTTPRoute whose Create replaces an object stored under the name
\* since the read.
reconcileHTTPRouteReplacing(stored, name, owner, spec, found) ==
    IF found = None
    THEN [result |-> "Created",
          object |-> Some([ownerReferences |-> <<owner>>,
                           spec |-> spec,
                           resourceVersion |-> 1])]
    ELSE IF isOwnedBy(found[1], owner) /\ ~isEqual(found[1].spec, spec)
    THEN IF \/ name \notin DOMAIN stored
            \/ stored[name].resourceVersion # found[1].resourceVersion
         THEN [result |-> "Error", object |-> None]
         ELSE [result |-> "Updated",
               object |-> Some([found[1] EXCEPT
                                   !.spec = spec,
                                   !.resourceVersion = @ + 1])]
    ELSE [result |-> IF isOwnedBy(found[1], owner) THEN "Unchanged"
                     ELSE "Skipped",
          object |-> None]

\* reconcileHTTPRoute that writes no object it has not found: it updates
\* only.
reconcileHTTPRouteUpdateOnly(stored, name, owner, spec, found) ==
    IF found = None
    THEN [result |-> "Skipped", object |-> None]
    ELSE IF isOwnedBy(found[1], owner) /\ ~isEqual(found[1].spec, spec)
    THEN IF \/ name \notin DOMAIN stored
            \/ stored[name].resourceVersion # found[1].resourceVersion
         THEN [result |-> "Error", object |-> None]
         ELSE [result |-> "Updated",
               object |-> Some([found[1] EXCEPT
                                   !.spec = spec,
                                   !.resourceVersion = @ + 1])]
    ELSE [result |-> IF isOwnedBy(found[1], owner) THEN "Unchanged"
                     ELSE "Skipped",
          object |-> None]

\* reconcileHTTPRoute after its r.Get: what it does, and the object it
\* writes.  Create fails when the name has been taken since the read, Update
\* when the object has been written or deleted since the read.
reconcileHTTPRoute(stored, name, owner, spec, found) ==
    IF found = None
    THEN IF name \in DOMAIN stored
         THEN [result |-> "Error", object |-> None]
         ELSE [result |-> "Created",
               object |-> Some([ownerReferences |-> <<owner>>,
                                spec |-> spec,
                                resourceVersion |-> 1])]
    ELSE IF isOwnedBy(found[1], owner) /\ ~isEqual(found[1].spec, spec)
    THEN IF \/ name \notin DOMAIN stored
            \/ stored[name].resourceVersion # found[1].resourceVersion
         THEN [result |-> "Error", object |-> None]
         ELSE [result |-> "Updated",
               object |-> Some([found[1] EXCEPT
                                   !.spec = spec,
                                   !.resourceVersion = @ + 1])]
    ELSE [result |-> IF isOwnedBy(found[1], owner) THEN "Unchanged"
                     ELSE "Skipped",
          object |-> None]

----------------------------------------------------------------------------
(* The actions. *)

\* Reconcile with a clean-up of its own before the pass: the stored routes
\* the Ingress owns are deleted, to be written again by the pass.
ReconcilePruning(n) ==
    /\ pass[n].pc \in {"idle", "done"}
    /\ npasses < MaxPasses
    /\ npasses' = npasses + 1
    /\ pass' = [pass EXCEPT
                   ![n] = StartPass(n, [IdlePass EXCEPT !.repeat = settled[n]])]
    /\ settled' = [settled EXCEPT
                      ![n] = IF pass'[n].pc = "done" THEN ~pass'[n].err
                             ELSE FALSE]
    /\ queue' = queue \ {n}
    /\ routes' = [name \in {m \in DOMAIN routes :
                               \/ ingresses[n] = None
                               \/ ~isOwnedBy(routes[m],
                                      createOwnerReference(ingresses[n][1]))}
                     |-> routes[name]]
    /\ UNCHANGED <<ingresses, gateways, services, RequireHostname,
                   calls, nenv>>

\* A Reconcile request for Ingress n is taken from the work queue.
Reconcile(n) ==
    /\ pass[n].pc \in {"idle", "done"}
    /\ npasses < MaxPasses
    /\ npasses' = npasses + 1
    /\ pass' = [pass EXCEPT
                   ![n] = StartPass(n, [IdlePass EXCEPT !.repeat = settled[n]])]
    /\ settled' = [settled EXCEPT
                      ![n] = IF pass'[n].pc = "done" THEN ~pass'[n].err
                             ELSE FALSE]
    /\ queue' = queue \ {n}
    /\ UNCHANGED <<ingresses, gateways, services, routes, RequireHostname,
                   calls, nenv>>

\* The pass of Ingress n handles its next hostname.
NextHostname(n) ==
    /\ pass[n].pc = "loop"
    /\ pass' = [pass EXCEPT ![n] = Iterate(n, pass[n])]
    /\ settled' = [settled EXCEPT
                      ![n] = IF pass'[n].pc = "done" THEN ~pass'[n].err
                             ELSE FALSE]
    /\ UNCHANGED <<ingresses, gateways, services, routes, RequireHostname,
                   calls, queue, npasses, nenv>>

\* The pass of Ingress n creates, updates or leaves the route it has read.
ApplyRoute(n) ==
    /\ pass[n].pc = "apply"
    /\ LET p == pass[n]
           pending == p.pending[1]
           done == reconcileHTTPRoute(routes, pending.name, p.owner[1],
                                      pending.spec, pending.found)
           logged == [p EXCEPT
                         !.applied = Append(@, [name |-> pending.name,
                                                hostname |-> pending.hostname,
                                                spec |-> pending.spec,
                                                found |-> pending.found,
                                                result |-> done.result]),
                         !.writes = IF done.object = None THEN @ ELSE @ + 1]
       IN  /\ routes' = IF done.object = None THEN routes
                        ELSE (pending.name :> done.object[1]) @@ routes
           /\ pass' = [pass EXCEPT
                          ![n] = IF done.result = "Error" THEN Failed(logged)
                                 ELSE Advance(logged)]
           /\ settled' = [m \in DOMAIN settled |->
                             IF m = n
                             THEN IF pass'[n].pc = "done" THEN ~pass'[n].err
                                  ELSE FALSE
                             ELSE settled[m] /\ done.object = None]
           /\ calls' = (pending.name :> [owner |-> p.owner[1],
                                         spec |-> pending.spec,
                                         result |-> done.result]) @@ calls
    /\ UNCHANGED <<ingresses, gateways, services, RequireHostname, queue,
                   npasses, nenv>>

\* The route names the pass of Ingress n may apply: one per host of its
\* rules, and the Ingress's own name for the catch-all route.
CandidateNames(n) ==
    IF ingresses[n] = None THEN {}
    ELSE {n} \cup {generateHTTPRouteName(n, ingresses[n][1].rules[k].host) :
                      k \in 1..Len(ingresses[n][1].rules)}

\* The owner references of a route that no Ingress of the model owns: none,
\* or an Ingress of another name.
ForeignOwners ==
    {<<>>,
     <<[apiVersion |-> "networking.k8s.io/v1", kind |-> "Ingress",
        name |-> <<"o">>, uid |-> "uid-o",
        controller |-> Some(TRUE), blockOwnerDeletion |-> Some(TRUE)]>>}

ForeignSpec ==
    [parentRefs |-> <<>>, hostnames |-> <<<<"f">>>>, rules |-> <<>>]

\* Someone else creates an HTTPRoute under a name a pass may apply.
ForeignCreate(n, name, owners) ==
    /\ nenv < MaxEnv
    /\ name \in CandidateNames(n)
    /\ name \notin DOMAIN routes
    /\ nenv' = nenv + 1
    /\ routes' = (name :> [ownerReferences |-> owners,
                           spec |-> ForeignSpec,
                           resourceVersion |-> 1]) @@ routes
    /\ settled' = [m \in IngressNames |-> FALSE]
    /\ pass' = [m \in IngressNames |-> [pass[m] EXCEPT !.repeat = FALSE]]
    /\ UNCHANGED <<ingresses, gateways, services, RequireHostname, calls,
                   queue, npasses>>

Next ==
    \/ \E n \in IngressNames : Reconcile(n)
    \/ \E n \in IngressNames : NextHostname(n)
    \/ \E n \in IngressNames : ApplyRoute(n)
    \/ \E n \in IngressNames, owners \in ForeignOwners :
           \E name \in CandidateNames(n) : ForeignCreate(n, name, owners)

----------------------------------------------------------------------------
(* The clusters the main specification starts from. *)

\* a.e.c, x.e.c: hosts under e.c; a-e.c: a host of another domain, whose
\* characters end with those of e.c.
HostA == <<"a", ".", "e", ".", "c">>

HostX == <<"x", ".", "e", ".", "c">>

HostDash == <<"a", "-", "e", ".", "c">>

Wildcard == <<"*", ".", "e", ".", "c">>

ServiceBackend(name, number) ==
    [resource |-> None,
     service |-> Some([name |-> name,
                       port |-> [number |-> number, name |-> <<>>]])]

RuleFor(host) ==
    [host |-> host,
     http |-> Some(<<[path |-> <<"/">>,
                      pathType |-> Some(PathTypePrefix),
                      backend |-> ServiceBackend(<<"s">>, 80)]>>)]


DefaultBackends == {None, Some(ServiceBackend(<<"t">>, 80))}

IngressOf(n, rules, defaultBackend) ==
    [name |-> n, namespace |-> IngressNamespace, uid |-> "uid-1",
     rules |-> rules, defaultBackend |-> defaultBackend]

Listener(name, hostname, from) ==
    [name |-> name, hostname |-> hostname, from |-> from]

\* The listeners a Gateway of the Ingress's namespace may have: an exact
\* one, a wildcard one, one without a hostname.
SameListeners ==
    <<Listener(<<"e">>, Some(HostA), None),
      Listener(<<"w">>, Some(Wildcard), None),
      Listener(<<"c">>, None, None)>>

\* The subsequence of s at the indices of the set keep.
RECURSIVE Pick(_, _, _)
Pick(s, keep, k) ==
    IF k > Len(s) THEN <<>>
    ELSE (IF k \in keep THEN <<s[k]>> ELSE <<>>) \o Pick(s, keep, k + 1)

\* The hosts in the order an Ingress of the model lists them.
HostOrder == <<HostA, HostDash, HostX, <<>>>>

\* The rule lists: up to MaxRules rules, of different hosts.
RuleLists ==
    {[k \in 1..Len(hs) |-> RuleFor(hs[k])] :
        hs \in {Pick(HostOrder, keep, 1) :
                   keep \in {ks \in SUBSET (1..Len(HostOrder)) :
                                 Cardinality(ks) \in 1..MaxRules}}}

\* The Gateway of the Ingress's namespace, with any of the listeners.
SameGateways ==
    {[namespace |-> IngressNamespace, name |-> <<"g">>,
      listeners |-> Pick(SameListeners, keep, 1)] :
        keep \in (SUBSET (1..Len(SameListeners))) \ {{}}}

\* The Gateway of another namespace: a listener open to all namespaces, or
\* one open to its own namespace only.
OtherGateways ==
    {[namespace |-> OtherNamespace, name |-> <<"h">>, listeners |-> <<l>>] :
        l \in {Listener(<<"c">>, None, Some(NamespacesFromAll)),
               Listener(<<"c">>, None, Some(NamespacesFromSame))}}

\* No Gateway, the Gateway of the Ingress's namespace, or that Gateway with
\* one listener followed by the Gateway of the other namespace.
GatewayLists ==
    {<<>>}
        \cup {<<g>> : g \in SameGateways}
        \cup {<<g, h>> : g \in {s \in SameGateways : Len(s.listeners) = 1},
                         h \in OtherGateways}

Services ==
    {[namespace |-> IngressNamespace, name |-> <<"s">>,
      ports |-> <<[name |-> <<"h">>, port |-> 80]>>]}

Init ==
    /\ \E rules \in RuleLists, defaultBackend \in DefaultBackends :
           ingresses = [n \in IngressNames |->
                           Some(IngressOf(n, rules, defaultBackend))]
    /\ gateways \in GatewayLists
    /\ services = Services
    /\ routes = <<>>
    /\ RequireHostname = FALSE
    /\ pass = [n \in IngressNames |-> IdlePass]
    /\ settled = [n \in IngressNames |-> FALSE]
    /\ calls = <<>>
    /\ queue = {}
    /\ npasses = 0
    /\ nenv = 0

Spec == Init /\ [][Next]_vars

----------------------------------------------------------------------------
(* The matcher specification: one Ingress with one rule, whose host is any *)
(* domain name of up to MaxHostLen characters over a small alphabet with   *)
(* both letter cases, and one Gateway with a listener whose hostname is    *)
(* any pattern, exact or wildcard, followed by a listener without one.     *)
(* Nobody but the controller acts.                                         *)
(***************************************************************************)

MatchAlphabet == {"a", "A", "."}

\* A name of labels separated by single dots.
IsDomainName(s) ==
    /\ s[1] # "."
    /\ s[Len(s)] # "."
    /\ \A k \in 1..(Len(s) - 1) : ~(s[k] = "." /\ s[k + 1] = ".")

StringsUpTo(length) ==
    {s \in UNION {[1..k -> MatchAlphabet] : k \in 1..length} :
        IsDomainName(s)}

MatchHosts == StringsUpTo(MaxHostLen)

MatchPatterns ==
    StringsUpTo(MaxPatLen)
        \cup {<<"*", ".">> \o suffix : suffix \in StringsUpTo(MaxPatLen)}

MatchGateway(pattern) ==
    [namespace |-> IngressNamespace, name |-> <<"g">>,
     listeners |-> <<Listener(<<"p">>, Some(pattern), None),
                     Listener(<<"c">>, None, None)>>]

InitMatch ==
    /\ \E host \in MatchHosts :
           ingresses = [n \in IngressNames |->
                           Some(IngressOf(n, <<RuleFor(host)>>, None))]
    /\ \E pattern \in MatchPatterns : gateways = <<MatchGateway(pattern)>>
    /\ services = Services
    /\ routes = <<>>
    /\ RequireHostname = FALSE
    /\ pass = [n \in IngressNames |-> IdlePass]
    /\ settled = [n \in IngressNames |-> FALSE]
    /\ calls = <<>>
    /\ queue = {}
    /\ npasses = 0
    /\ nenv = 0

NextMatch ==
    \/ \E n \in IngressNames : Reconcile(n)
    \/ \E n \in IngressNames : NextHostname(n)
    \/ \E n \in IngressNames : ApplyRoute(n)

SpecMatch == InitMatch /\ [][NextMatch]_vars

----------------------------------------------------------------------------
(* The accessibility specification: one Gateway, in the Ingress's          *)
(* namespace or in another, with a wildcard listener and a listener        *)
(* without a hostname, each with any policy for the namespaces of its      *)
(* routes; the Ingress has a rule for a.e.c, or no rule and a default      *)
(* backend.                                                                *)
(***************************************************************************)

AccessPolicies ==
    {None, Some(NamespacesFromAll), Some(NamespacesFromSame),
     Some(NamespacesFromSelector)}

AccessGateways ==
    {<<[namespace |-> namespace, name |-> <<"g">>,
        listeners |-> <<Listener(<<"w">>, Some(Wildcard), first),
                        Listener(<<"c">>, None, second)>>]>> :
        namespace \in {IngressNamespace, OtherNamespace},
        first \in AccessPolicies, second \in AccessPolicies}

AccessIngresses ==
    {IngressOf(n, <<RuleFor(HostA)>>, None) : n \in IngressNames}
        \cup {IngressOf(n, <<>>, Some(ServiceBackend(<<"t">>, 80))) :
                 n \in IngressNames}

InitAccess ==
    /\ \E ingress \in AccessIngresses :
           ingresses = [n \in IngressNames |-> Some(ingress)]
    /\ gateways \in AccessGateways
    /\ services = Services
    /\ routes = <<>>
    /\ RequireHostname = FALSE
    /\ pass = [n \in IngressNames |-> IdlePass]
    /\ settled = [n \in IngressNames |-> FALSE]
    /\ calls = <<>>
    /\ queue = {}
    /\ npasses = 0
    /\ nenv = 0

SpecAccess == InitAccess /\ [][NextMatch]_vars

----------------------------------------------------------------------------
(* The backend specification: one Gateway with a listener without          *)
(* hostname; an Ingress with a rule for a.e.c whose path has any path type *)
(* and any backend, with or without a second rule for x.e.c, and with or   *)
(* without a default backend.  A backend gives a port number, or names a   *)
(* port of a Service that has it, of a Service that has no such port, or   *)
(* of a Service that the Ingress's namespace does not have.                *)
(***************************************************************************)

NamedBackend(name, portName) ==
    [resource |-> None,
     service |-> Some([name |-> name,
                       port |-> [number |-> 0, name |-> portName]])]

\* Service s of the Ingress's namespace, with the ports x and h, and
\* Service m of the other namespace.
BackendServices ==
    {[namespace |-> IngressNamespace, name |-> <<"s">>,
      ports |-> <<[name |-> <<"x">>, port |-> 9],
                  [name |-> <<"h">>, port |-> 8080]>>],
     [namespace |-> OtherNamespace, name |-> <<"m">>,
      ports |-> <<[name |-> <<"h">>, port |-> 8080]>>]}

Backends ==
    {ServiceBackend(<<"s">>, 80),
     NamedBackend(<<"s">>, <<"h">>),
     NamedBackend(<<"s">>, <<"q">>),
     NamedBackend(<<"m">>, <<"h">>)}

PathTypes ==
    {None, Some(PathTypeExact), Some(PathTypePrefix),
     Some(PathTypeImplementationSpecific)}

PathValues == {<<"/">>, <<"a", "/">>}

PathRule(host, path, pathType, backend) ==
    [host |-> host,
     http |-> Some(<<[path |-> path, pathType |-> pathType,
                      backend |-> backend]>>)]

BackendRuleLists ==
    {<<>>}
        \cup {<<first>> \o rest :
                 first \in {PathRule(HostA, path, pathType, backend) :
                               path \in PathValues, pathType \in PathTypes,
                               backend \in Backends},
                 rest \in {<<>>}
                     \cup {<<PathRule(HostX, <<"/">>, Some(PathTypePrefix),
                                      backend)>> : backend \in Backends}}

BackendDefaults ==
    {None, Some(NamedBackend(<<"s">>, <<"h">>)),
     Some(NamedBackend(<<"m">>, <<"h">>))}

BackendGateways ==
    <<[namespace |-> IngressNamespace, name |-> <<"g">>,
       listeners |-> <<Listener(<<"c">>, None, None)>>]>>

InitBackend ==
    /\ \E rules \in BackendRuleLists, defaultBackend \in BackendDefaults :
           ingresses = [n \in IngressNames |->
                           Some(IngressOf(n, rules, defaultBackend))]
    /\ gateways = BackendGateways
    /\ services = BackendServices
    /\ routes = <<>>
    /\ RequireHostname = FALSE
    /\ pass = [n \in IngressNames |-> IdlePass]
    /\ settled = [n \in IngressNames |-> FALSE]
    /\ calls = <<>>
    /\ queue = {}
    /\ npasses = 0
    /\ nenv = 0

SpecBackend == InitBackend /\ [][NextMatch]_vars

----------------------------------------------------------------------------
(* The watch specification: the Gateways are created, updated and deleted  *)
(* while the controller runs, and every Reconcile pass is started by a     *)
(* request of the work queue.  The queue starts with a request for every   *)
(* Ingress stored, as the informer's first list leaves it.                 *)
(***************************************************************************)

\* The requests the map function of the Gateway watch returns: one for
\* every Ingress r.List returns, and none when r.List fails.
EnqueueRequestsFromMapFunc(listFails) ==
    IF listFails THEN {}
    ELSE {n \in IngressNames : ingresses[n] # None}

\* A Gateway is created, updated or deleted: the Gateways become new, and
\* the watch enqueues the requests of its map function.
GatewayEvent(new, listFails) ==
    /\ nenv < MaxEnv
    /\ new # gateways
    /\ nenv' = nenv + 1
    /\ gateways' = new
    /\ queue' = queue \cup EnqueueRequestsFromMapFunc(listFails)
    /\ settled' = [m \in IngressNames |-> FALSE]
    /\ pass' = [m \in IngressNames |-> [pass[m] EXCEPT !.repeat = FALSE]]
    /\ UNCHANGED <<ingresses, services, routes, RequireHostname, calls,
                   npasses>>

\* A worker takes the request for Ingress n from the queue and calls
\* Reconcile; no two passes of one Ingress run at a time.
ProcessNextWorkItem(n) ==
    /\ n \in queue
    /\ Reconcile(n)

\* No Gateway, or the Gateway of the Ingress's namespace with any
\* listeners.
WatchGatewayLists == {<<>>} \cup {<<g>> : g \in SameGateways}

WatchIngresses ==
    {None} \cup {Some(IngressOf(n, <<RuleFor(host)>>, None)) :
                    n \in IngressNames, host \in {HostA, HostX}}

InitWatch ==
    /\ \E ingress \in WatchIngresses :
           ingresses = [n \in IngressNames |-> ingress]
    /\ gateways \in WatchGatewayLists
    /\ services = Services
    /\ routes = <<>>
    /\ RequireHostname = FALSE
    /\ pass = [n \in IngressNames |-> IdlePass]
    /\ settled = [n \in IngressNames |-> FALSE]
    /\ calls = <<>>
    /\ queue = {n \in IngressNames : ingresses[n] # None}
    /\ npasses = 0
    /\ nenv = 0

NextWatch ==
    \/ \E new \in WatchGatewayLists, listFails \in BOOLEAN :
           GatewayEvent(new, listFails)
    \/ \E n \in IngressNames : ProcessNextWorkItem(n)
    \/ \E n \in IngressNames : NextHostname(n)
    \/ \E n \in IngressNames : ApplyRoute(n)

\* The workers go on: a request in the queue is taken, and a pass that has
\* started runs to its end.  ApplyRoute(n) is enabled exactly when the pass
\* is at "apply" and takes it from there, so its weak fairness is that the
\* pass is away from "apply" again and again.
FairWatch ==
    \A n \in IngressNames :
        /\ WF_vars(ProcessNextWorkItem(n))
        /\ WF_vars(NextHostname(n))
        /\ []<>(pass[n].pc # "apply")

SpecWatch == InitWatch /\ [][NextWatch]_vars /\ FairWatch

----------------------------------------------------------------------------
(* The retry specification: a write of reconcileHTTPRoute may fail with    *)
(* an error of the API server, and the Reconcile request is tried again    *)
(* with nothing changed.                                                   *)
(***************************************************************************)

\* The r.Create or r.Update of reconcileHTTPRoute returns an error: nothing
\* is written, and the pass of Ingress n ends with the error.
ApplyRouteFails(n) ==
    /\ pass[n].pc = "apply"
    /\ nenv < MaxEnv
    /\ LET p == pass[n]
           pending == p.pending[1]
           done == reconcileHTTPRoute(routes, pending.name, p.owner[1],
                                      pending.spec, pending.found)
           logged == [p EXCEPT
                         !.applied = Append(@, [name |-> pending.name,
                                                hostname |-> pending.hostname,
                                                spec |-> pending.spec,
                                                found |-> pending.found,
                                                result |-> "Error"])]
       IN  /\ done.result \in {"Created", "Updated"}
           /\ pass' = [pass EXCEPT ![n] = Failed(logged)]
           /\ calls' = (pending.name :> [owner |-> p.owner[1],
                                         spec |-> pending.spec,
                                         result |-> "Error"]) @@ calls
    /\ nenv' = nenv + 1
    /\ settled' = [settled EXCEPT ![n] = FALSE]
    /\ UNCHANGED <<ingresses, gateways, services, routes, RequireHostname,
                   queue, npasses>>

NextRetry ==
    \/ \E n \in IngressNames : Reconcile(n)
    \/ \E n \in IngressNames : NextHostname(n)
    \/ \E n \in IngressNames : ApplyRoute(n)
    \/ \E n \in IngressNames : ApplyRouteFails(n)

SpecRetry == Init /\ [][NextRetry]_vars

----------------------------------------------------------------------------
(* The live specification: the Ingress and the Gateways are created,       *)
(* updated and deleted while the controller runs.                          *)
(***************************************************************************)

\* The Ingress n is created, updated or deleted: For(&Ingress{}) enqueues a
\* Reconcile request for it.
IngressEvent(n, new) ==
    /\ nenv < MaxEnv
    /\ new # ingresses[n]
    /\ nenv' = nenv + 1
    /\ ingresses' = [ingresses EXCEPT ![n] = new]
    /\ queue' = queue \cup {n}
    /\ settled' = [m \in IngressNames |-> FALSE]
    /\ pass' = [m \in IngressNames |-> [pass[m] EXCEPT !.repeat = FALSE]]
    /\ UNCHANGED <<gateways, services, routes, RequireHostname, calls,
                   npasses>>

NextLive ==
    \/ NextWatch
    \/ \E n \in IngressNames, new \in WatchIngresses : IngressEvent(n, new)

SpecLive == InitWatch /\ [][NextLive]_vars

----------------------------------------------------------------------------
(* The rules specification: one Ingress whose rules have several paths, no *)
(* HTTP section or no hostname, in any order, with RequireHostname set or  *)
(* not.                                                                    *)
(***************************************************************************)

ResourceBackend(name) ==
    [resource |-> Some([apiGroup |-> Some(<<"k">>), kind |-> <<"b">>,
                        name |-> name]),
     service |-> None]

\* A rule for a.e.c with the paths /b and /a, one for x.e.c with a named
\* port, one for x.e.c without HTTP section, and one without hostname.
RuleKinds ==
    <<[host |-> HostA,
       http |-> Some(<<[path |-> <<"/", "b">>,
                        pathType |-> Some(PathTypePrefix),
                        backend |-> ServiceBackend(<<"s">>, 80)],
                       [path |-> <<"/", "a">>,
                        pathType |-> Some(PathTypeExact),
                        backend |-> ResourceBackend(<<"r">>)]>>)],
      PathRule(HostX, <<"/">>, Some(PathTypePrefix),
               NamedBackend(<<"s">>, <<"h">>)),
      [host |-> HostX, http |-> None],
      PathRule(<<>>, <<"/">>, Some(PathTypePrefix),
               ServiceBackend(<<"s">>, 80))>>

\* No rule, or up to MaxRules of the rules, each at most once, in any order.
OrderedRuleLists ==
    {[k \in DOMAIN order |-> RuleKinds[order[k]]] :
        order \in {o \in UNION {[1..len -> 1..Len(RuleKinds)] :
                                   len \in 0..MaxRules} :
                      \A j, k \in DOMAIN o : j # k => o[j] # o[k]}}

\* The Gateway of the Ingress's namespace with a listener for a.e.c, one
\* without hostname, or both.
RulesGateways ==
    {<<g>> : g \in {s \in SameGateways :
                       \A k \in 1..Len(s.listeners) :
                           s.listeners[k].hostname # Some(Wildcard)}}

InitRules ==
    /\ \E rules \in OrderedRuleLists, defaultBackend \in DefaultBackends :
           ingresses = [n \in IngressNames |->
                           Some(IngressOf(n, rules, defaultBackend))]
    /\ gateways \in RulesGateways
    /\ services = BackendServices
    /\ routes = <<>>
    /\ RequireHostname \in BOOLEAN
    /\ pass = [n \in IngressNames |-> IdlePass]
    /\ settled = [n \in IngressNames |-> FALSE]
    /\ calls = <<>>
    /\ queue = {}
    /\ npasses = 0
    /\ nenv = 0

SpecRules == InitRules /\ [][NextMatch]_vars

----------------------------------------------------------------------------
(* The cross-namespace specification: the reconciler with the field        *)
(* CrossNamespace maps the default backend of an Ingress.  Its pass is     *)
(* [pc, CrossNamespace, ingress, defaultBackendRef, err].                  *)
(***************************************************************************)

\* mapBackendRef with CrossNamespace, which leaves the namespace of a
\* resource as it is whatever the field says.
mapBackendRefServicesOnly(CrossNamespace, svcs, namespace, ref) ==
    LET emptyRef ==
            [group |-> None, kind |-> None, namespace |-> None,
             name |-> <<>>, port |-> None, weight |-> Some(1)]
        pinned == IF CrossNamespace THEN None ELSE Some(namespace)
    IN  IF ref.resource # None
        THEN [err |-> FALSE,
              ref |-> [emptyRef EXCEPT
                          !.group = ref.resource[1].apiGroup,
                          !.kind = Some(ref.resource[1].kind),
                          !.name = ref.resource[1].name]]
        ELSE IF ref.service # None
        THEN LET service == ref.service[1]
                 objectRef ==
                     [emptyRef EXCEPT
                         !.group = Some(<<>>),
                         !.kind = Some(ServiceKind),
                         !.namespace = pinned,
                         !.name = service.name]
                 found == {svc \in svcs : /\ svc.namespace = namespace
                                          /\ svc.name = service.name}
             IN  IF service.port.number # 0
                 THEN [err |-> FALSE,
                       ref |-> [objectRef EXCEPT
                                   !.port = Some(service.port.number)]]
                 ELSE IF service.port.name # <<>>
                 THEN IF found = {}
                      THEN [err |-> TRUE, ref |-> emptyRef]
                      ELSE [err |-> FALSE,
                            ref |-> [objectRef EXCEPT
                                        !.port = portNamed(
                                            (CHOOSE svc \in found : TRUE).ports,
                                            service.port.name)]]
                 ELSE [err |-> FALSE, ref |-> objectRef]
        ELSE [err |-> FALSE, ref |-> emptyRef]

\* mapBackendRef of the reconciler with the field CrossNamespace.
mapBackendRefCrossNamespace(CrossNamespace, svcs, namespace, ref) ==
    LET emptyRef ==
            [group |-> None, kind |-> None, namespace |-> None,
             name |-> <<>>, port |-> None, weight |-> Some(1)]
        pinned == IF CrossNamespace THEN None ELSE Some(namespace)
    IN  IF ref.resource # None
        THEN [err |-> FALSE,
              ref |-> [emptyRef EXCEPT
                          !.group = ref.resource[1].apiGroup,
                          !.kind = Some(ref.resource[1].kind),
                          !.namespace = pinned,
                          !.name = ref.resource[1].name]]
        ELSE IF ref.service # None
        THEN LET service == ref.service[1]
                 objectRef ==
                     [emptyRef EXCEPT
                         !.group = Some(<<>>),
                         !.kind = Some(ServiceKind),
                         !.namespace = pinned,
                         !.name = service.name]
                 found == {svc \in svcs : /\ svc.namespace = namespace
                                          /\ svc.name = service.name}
             IN  IF service.port.number # 0
                 THEN [err |-> FALSE,
                       ref |-> [objectRef EXCEPT
                                   !.port = Some(service.port.number)]]
                 ELSE IF service.port.name # <<>>
                 THEN IF found = {}
                      THEN [err |-> TRUE, ref |-> emptyRef]
                      ELSE [err |-> FALSE,
                            ref |-> [objectRef EXCEPT
                                        !.port = portNamed(
                                            (CHOOSE svc \in found : TRUE).ports,
                                            service.port.name)]]
                 ELSE [err |-> FALSE, ref |-> objectRef]
        ELSE [err |-> FALSE, ref |-> emptyRef]

\* The backends: resources with and without API group, services with a
\* port number or a port name, and a backend that names neither.
CrossBackends ==
    {[resource |-> Some([apiGroup |-> apiGroup, kind |-> <<"b">>,
                         name |-> name]),
      service |-> None] :
        apiGroup \in {None, Some(<<"k">>)}, name \in {<<"r">>, <<"s">>}}
    \cup {ServiceBackend(name, number) :
             name \in {<<"s">>, <<"m">>}, number \in {80, 8080}}
    \cup {NamedBackend(name, portName) :
             name \in {<<"s">>, <<"m">>},
             portName \in {<<"h">>, <<"q">>, <<"x">>}}
    \cup {[resource |-> None, service |-> None]}

\* A pass of the reconciler with the field CrossNamespace, not started.
CrossPass(CrossNamespace) ==
    [pc |-> "idle", CrossNamespace |-> CrossNamespace, ingress |-> None,
     defaultBackendRef |-> None, err |-> FALSE]

InitCross ==
    /\ \E namespace \in {IngressNamespace, OtherNamespace},
          backend \in CrossBackends :
           ingresses =
               [n \in IngressNames |->
                   Some([IngressOf(n, <<>>, Some(backend))
                            EXCEPT !.namespace = namespace])]
    /\ gateways = BackendGateways
    /\ services \in {{}, BackendServices}
    /\ routes = <<>>
    /\ RequireHostname = FALSE
    /\ \E CrossNamespace \in BOOLEAN :
           pass = [n \in IngressNames |-> CrossPass(CrossNamespace)]
    /\ settled = [n \in IngressNames |-> FALSE]
    /\ calls = <<>>
    /\ queue = {}
    /\ npasses = 0
    /\ nenv = 0

\* Reconcile maps the default backend of Ingress n.
MapDefaultBackend(n) ==
    /\ pass[n].pc = "idle"
    /\ LET ingress == ingresses[n][1]
           mapped == mapBackendRefCrossNamespace(
                         pass[n].CrossNamespace, services, ingress.namespace,
                         ingress.defaultBackend[1])
       IN  pass' = [pass EXCEPT
                       ![n] = [@ EXCEPT
                                  !.pc = "done",
                                  !.ingress = ingresses[n],
                                  !.defaultBackendRef =
                                      IF mapped.err THEN None
                                      ELSE Some(mapped.ref),
                                  !.err = mapped.err]]
    /\ UNCHANGED <<ingresses, gateways, services, routes, RequireHostname,
                   settled, calls, queue, npasses, nenv>>

NextCross == \E n \in IngressNames : MapDefaultBackend(n)

SpecCross == InitCross /\ [][NextCross]_vars

----------------------------------------------------------------------------
(* The catch-all specification: no Gateway, or one in the Ingress's        *)
(* namespace or in another, with any of a listener for a.e.c, a wildcard   *)
(* listener and a listener without hostname, each with any policy for the  *)
(* namespaces of its routes; the Ingress has no rule and a default         *)
(* backend, or a rule for a.e.c.                                           *)
(***************************************************************************)

\* The listeners of SameListeners at the indices of policies, each with its
\* policy.
PolicyListeners(policies) ==
    LET kept == Pick(SameListeners, DOMAIN policies, 1)
        order == Pick([k \in 1..Len(SameListeners) |-> k],
                      DOMAIN policies, 1)
    IN  [k \in 1..Len(kept) |->
            Listener(kept[k].name, kept[k].hostname, policies[order[k]])]

CatchAllGateways ==
    {<<>>} \cup
    {<<[namespace |-> namespace, name |-> <<"g">>,
        listeners |-> PolicyListeners(policies)]>> :
        namespace \in {IngressNamespace, OtherNamespace},
        policies \in UNION {[keep -> AccessPolicies] :
                               keep \in (SUBSET (1..Len(SameListeners)))
                                            \ {{}}}}

InitCatchAll ==
    /\ \E ingress \in AccessIngresses :
           ingresses = [n \in IngressNames |-> Some(ingress)]
    /\ gateways \in CatchAllGateways
    /\ services = Services
    /\ routes = <<>>
    /\ RequireHostname = FALSE
    /\ pass = [n \in IngressNames |-> IdlePass]
    /\ settled = [n \in IngressNames |-> FALSE]
    /\ calls = <<>>
    /\ queue = {}
    /\ npasses = 0
    /\ nenv = 0

SpecCatchAll == InitCatchAll /\ [][NextMatch]_vars

----------------------------------------------------------------------------
(* The paths specification: the Ingresses of the rules specification with  *)
(* a second rule for a.e.c, before or after another rule or alone.         *)
(***************************************************************************)

\* The rules of the rules specification, and a second rule for a.e.c with
\* the path /c.
PathRuleKinds ==
    Append(RuleKinds,
           PathRule(HostA, <<"/", "c">>, Some(PathTypeExact),
                    ServiceBackend(<<"u">>, 80)))

\* Up to MaxRules of the rules, each at most once, in any order, the second
\* rule for a.e.c among them.
PathRuleLists ==
    {[k \in DOMAIN order |-> PathRuleKinds[order[k]]] :
        order \in {o \in UNION {[1..len -> 1..Len(PathRuleKinds)] :
                                   len \in 1..MaxRules} :
                      /\ \A j, k \in DOMAIN o : j # k => o[j] # o[k]
                      /\ \E k \in DOMAIN o : o[k] = Len(PathRuleKinds)}}

InitPaths ==
    /\ \E rules \in PathRuleLists, defaultBackend \in DefaultBackends :
           ingresses = [n \in IngressNames |->
                           Some(IngressOf(n, rules, defaultBackend))]
    /\ gateways \in RulesGateways
    /\ services = BackendServices
    /\ routes = <<>>
    /\ RequireHostname = FALSE
    /\ pass = [n \in IngressNames |-> IdlePass]
    /\ settled = [n \in IngressNames |-> FALSE]
    /\ calls = <<>>
    /\ queue = {}
    /\ npasses = 0
    /\ nenv = 0

SpecPaths == InitPaths /\ [][NextMatch]_vars

----------------------------------------------------------------------------
(* The re-creation specification: the live specification where an Ingress  *)
(* may also be deleted and created again under its name before the next    *)
(* pass reads it: it has a new UID, and the rules and default backend of   *)
(* the old one or others.  The routes of the old one are still stored.     *)
(***************************************************************************)

\* The Ingress of the name n created anew.
Recreated(n) ==
    {Some([IngressOf(n, <<RuleFor(host)>>, defaultBackend)
               EXCEPT !.uid = "uid-2"]) :
        host \in {HostA, HostX}, defaultBackend \in DefaultBackends}

\* Ingress n is deleted and an Ingress of its name is created.
IngressRecreated(n, new) ==
    /\ ingresses[n] # None
    /\ ingresses[n][1].uid # new[1].uid
    /\ IngressEvent(n, new)

NextRecreate ==
    \/ NextWatch
    \/ \E n \in IngressNames : \E new \in Recreated(n) :
           IngressRecreated(n, new)

SpecRecreate == InitWatch /\ [][NextRecreate]_vars

----------------------------------------------------------------------------
(* The pair specification: two Ingresses of one namespace whose routes     *)
(* have the same name.  Ingress i has a rule for a.e.c, whose route is     *)
(* i-a-e-c; Ingress i-a-e-c has no rule and a default backend, and its     *)
(* route without hostname has the Ingress's name.  Their passes interleave *)
(* step by step.  The route may be stored from an earlier pass of one of   *)
(* them, made with the Gateway as it was then.                             *)
(***************************************************************************)

PairFirst == <<"i">>

PairSecond == generateHTTPRouteName(PairFirst, HostA)

PairNames == {PairFirst, PairSecond}

PairIngress(n) ==
    IF n = PairFirst
    THEN [IngressOf(n, <<RuleFor(HostA)>>, None) EXCEPT !.uid = "uid-1"]
    ELSE [IngressOf(n, <<>>, Some(ServiceBackend(<<"t">>, 80)))
             EXCEPT !.uid = "uid-2"]

\* The spec a pass of Ingress n applies when the Gateways are listed; the
\* pass applies none when err is TRUE.
PairSpec(n, listed) ==
    LET ingress == PairIngress(n)
    IN  IF n = PairFirst
        THEN LET parentRefs ==
                     findMatchingGateways(ingress.namespace, HostA, listed)
             IN  [err |-> parentRefs = <<>>,
                  spec |-> [parentRefs |-> parentRefs,
                            hostnames |-> <<HostA>>,
                            rules |-> createHTTPRouteRules(
                                          Services, ingress.namespace,
                                          ingress.rules, None).rules]]
        ELSE createDefaultBackendSpec(
                 ingress.namespace,
                 mapBackendRef(Services, ingress.namespace,
                               ingress.defaultBackend[1]).ref,
                 listed)

\* No route, or the route an earlier pass of one of the two Ingresses has
\* created.
PairRoutes ==
    {<<>>}
        \cup UNION {{PairSecond :>
                         [ownerReferences |->
                              <<createOwnerReference(PairIngress(n))>>,
                          spec |-> PairSpec(n, <<g>>).spec,
                          resourceVersion |-> 1] :
                        g \in {s \in SameGateways :
                                  ~PairSpec(n, <<s>>).err}} :
                     n \in PairNames}

InitPair ==
    /\ ingresses = [n \in PairNames |-> Some(PairIngress(n))]
    /\ gateways \in {<<g>> : g \in SameGateways}
    /\ services = Services
    /\ routes \in PairRoutes
    /\ RequireHostname = FALSE
    /\ pass = [n \in PairNames |-> IdlePass]
    /\ settled = [n \in PairNames |-> FALSE]
    /\ calls = <<>>
    /\ queue = {}
    /\ npasses = 0
    /\ nenv = 0

NextPair ==
    \/ \E n \in PairNames : Reconcile(n)
    \/ \E n \in PairNames : NextHostname(n)
    \/ \E n \in PairNames : ApplyRoute(n)

SpecPair == InitPair /\ [][NextPair]_vars

----------------------------------------------------------------------------
(* The properties. *)

\* reconcileHTTPRoute returns in this step of the pass of Ingress n.
Applies(n) == Len(pass'[n].applied) = Len(pass[n].applied) + 1

\* The entry the pass logs for the reconcileHTTPRoute call that returns in
\* this step.
AppliedNow(n) == pass'[n].applied[Len(pass'[n].applied)]

\* No owner reference of the object names the owner's apiVersion, kind and
\* name.
NoMatchingOwner(object, owner) ==
    \A k \in 1..Len(object.ownerReferences) :
        \/ object.ownerReferences[k].apiVersion # owner.apiVersion
        \/ object.ownerReferences[k].kind # owner.kind
        \/ object.ownerReferences[k].name # owner.name

\* C1: when reconcileHTTPRoute finds an HTTPRoute stored under the name it
\* is given and none of that object's owner references matches the Ingress
\* of the pass, the call writes nothing (the store is left as it was) and
\* the pass goes on without an error, in every pass of every sequence of
\* passes.
C1_OwnershipProtection ==
    [][\A n \in IngressNames :
           (/\ Applies(n)
            /\ pass[n].pending[1].found # None
            /\ NoMatchingOwner(pass[n].pending[1].found[1], pass[n].owner[1]))
               => /\ routes' = routes
                  /\ pass'[n].writes = pass[n].writes
                  /\ ~pass'[n].err
                  /\ AppliedNow(n).result = "Skipped"]_vars

\* A pass has found a route owned by an Ingress of another name under one
\* of its names and has left it as it was, and the pass has ended without
\* an error.
C1_Witness ==
    \E n \in IngressNames :
        /\ pass[n].pc = "done"
        /\ ~pass[n].err
        /\ \E k \in 1..Len(pass[n].applied) :
               LET entry == pass[n].applied[k]
               IN  /\ entry.found # None
                   /\ Len(entry.found[1].ownerReferences) = 1
                   /\ NoMatchingOwner(entry.found[1], pass[n].owner[1])
                   /\ entry.result = "Skipped"
                   /\ routes[entry.name] = entry.found[1]

\* C2: a reconcileHTTPRoute call whose name, owner and spec are those of
\* the last call made for that name, which created the object, writes
\* nothing: the store is left as it was and the call reports no change.
C2_ApplyIdempotent ==
    [][\A n \in IngressNames :
           (/\ Applies(n)
            /\ pass[n].pending[1].name \in DOMAIN calls
            /\ calls[pass[n].pending[1].name] =
                   [owner |-> pass[n].owner[1],
                    spec |-> pass[n].pending[1].spec,
                    result |-> "Created"])
               => /\ routes' = routes
                  /\ pass'[n].writes = pass[n].writes
                  /\ AppliedNow(n).result = "Unchanged"]_vars

\* The second pass has applied, and left unchanged, a route that the call
\* before it for that name had created from the same owner and spec.
C2_Witness ==
    \E n \in IngressNames :
        \E k \in 1..Len(pass[n].applied) :
            LET entry == pass[n].applied[k]
            IN  /\ npasses = 2
                /\ entry.result = "Unchanged"
                /\ entry.found # None
                /\ entry.found[1] = [ownerReferences |-> <<pass[n].owner[1]>>,
                                     spec |-> entry.spec,
                                     resourceVersion |-> 1]
                /\ routes[entry.name] = entry.found[1]

\* C3: a pass that starts after a pass of the same Ingress has ended
\* without error, with nothing changed in between by anyone else, writes
\* nothing, however many hostnames the Ingress has.
C3_PassIdempotent ==
    \A n \in IngressNames : pass[n].repeat => pass[n].writes = 0

\* The hostnames of the rules, without the empty one.
NamedHosts(ingress) ==
    {ingress.rules[k].host : k \in 1..Len(ingress.rules)} \ {<<>>}

\* The pass of Ingress n has ended without error after applying a route for
\* each of the two distinct hostnames of the Ingress, none of them left to
\* a foreign owner.
TwoHostnamesApplied(n) ==
    /\ pass[n].pc = "done"
    /\ ~pass[n].err
    /\ Cardinality(NamedHosts(pass[n].ingress[1])) = 2
    /\ Len(pass[n].applied) = 2
    /\ pass[n].applied[1].hostname # pass[n].applied[2].hostname
    /\ \A k \in 1..2 : /\ pass[n].applied[k].hostname # None
                       /\ pass[n].applied[k].hostname[1] # <<>>
                       /\ pass[n].applied[k].result # "Skipped"

\* C4: an Ingress whose rules name exactly two distinct hostnames gets
\* exactly two HTTPRoutes, under two different names, each with the one
\* hostname it was made for.
C4_TwoHostnamesTwoRoutes ==
    \A n \in IngressNames :
        (pass[n].ingress # None /\ TwoHostnamesApplied(n))
            => LET first == pass[n].applied[1]
                   second == pass[n].applied[2]
               IN  /\ first.name # second.name
                   /\ generateHTTPRouteName(n, first.hostname[1])
                          # generateHTTPRouteName(n, second.hostname[1])
                   /\ first.name \in DOMAIN routes
                   /\ second.name \in DOMAIN routes
                   /\ routes[first.name].spec.hostnames
                          = <<first.hostname[1]>>
                   /\ routes[second.name].spec.hostnames
                          = <<second.hostname[1]>>

\* C5: rules without a hostname are dropped before the hostnames are
\* collected: the empty hostname is never one of the hostnames of a pass,
\* no route is applied for it, and an Ingress whose rules all lack a
\* hostname is handled as one without hostnames (its pass iterates over no
\* hostname).
C5_HostlessRulesDropped ==
    \A n \in IngressNames :
        /\ \A k \in 1..Len(pass[n].hostnames) : pass[n].hostnames[k] # <<>>
        /\ \A k \in 1..Len(pass[n].applied) :
               pass[n].applied[k].hostname # Some(<<>>)
        /\ (pass[n].ingress # None
            /\ NamedHosts(pass[n].ingress[1]) = {}) => pass[n].pc # "loop"

\* The route spec of the applied entry has a ParentRef for the listener of
\* the pair.
Selected(entry, pair) ==
    \E k \in 1..Len(entry.spec.parentRefs) :
        LET parentRef == entry.spec.parentRefs[k]
        IN  /\ parentRef.namespace = Some(pair.gateway.namespace)
            /\ parentRef.name = pair.gateway.name
            /\ parentRef.sectionName = Some(pair.listener.name)

\* The listeners of the Gateways the pass of Ingress n has listed.
ListedPairs(n) ==
    {ListenersOf(pass[n].gateways)[k] :
        k \in 1..Len(ListenersOf(pass[n].gateways))}

\* The listeners among them with a wildcard hostname, *.<suffix>.
WildcardPairs(n) ==
    {pair \in ListedPairs(n) :
        /\ pair.listener.hostname # None
        /\ HasPrefix(pair.listener.hostname[1], <<"*", ".">>)}

\* The <suffix> of a wildcard listener.
SuffixOf(pair) == TrimPrefix(pair.listener.hostname[1], <<"*", ".">>)

\* The entries the pass of Ingress n has logged for routes of a hostname.
HostEntries(n) ==
    {pass[n].applied[k] : k \in 1..Len(pass[n].applied)}
        \ {entry \in {pass[n].applied[k] : k \in 1..Len(pass[n].applied)} :
               entry.hostname = None}

\* C6: a wildcard listener *.<suffix> is selected for a hostname only if
\* the hostname ends with a dot followed by the suffix (in any letter
\* case); ending with the characters of the suffix is not enough.
C6_WildcardLabelBoundary ==
    \A n \in IngressNames :
        \A entry \in HostEntries(n), pair \in WildcardPairs(n) :
            Selected(entry, pair)
                => HasSuffix(ToLower(entry.hostname[1]),
                             <<".">> \o ToLower(SuffixOf(pair)))

\* The strings that differ from s in the case of their letters only.
CaseVariants(s) ==
    {t \in [1..Len(s) -> MatchAlphabet \cup {"*"}] : ToLower(t) = ToLower(s)}

\* C7: whether a listener with a hostname is selected for a hostname does
\* not depend on the letter case of either: it is what hostnameMatches
\* gives for every respelling of the two in other letter cases.
C7_CaseInsensitive ==
    \A n \in IngressNames :
        \A entry \in HostEntries(n), pair \in ListedPairs(n) :
            pair.listener.hostname # None
                => \A host \in CaseVariants(entry.hostname[1]),
                      pattern \in CaseVariants(pair.listener.hostname[1]) :
                       Selected(entry, pair) <=> hostnameMatches(host, pattern)

\* The hostname is the suffix of the wildcard listener, in some letter case.
IsBareSuffix(entry, pair) ==
    ToLower(entry.hostname[1]) = ToLower(SuffixOf(pair))

\* C8: for a hostname that is the <suffix> of a wildcard listener
\* *.<suffix>, in any letter case, that listener is not selected, while
\* the listener without a hostname is.
C8_WildcardNotBareSuffix ==
    \A n \in IngressNames :
        \A entry \in HostEntries(n), pair \in WildcardPairs(n) :
            IsBareSuffix(entry, pair)
                => /\ ~Selected(entry, pair)
                   /\ \A other \in ListedPairs(n) :
                          other.listener.hostname = None
                              => Selected(entry, other)

\* A route has been created for a hostname that is the suffix of the
\* wildcard listener in another letter case, attached to one listener.
C8_Witness ==
    \E n \in IngressNames :
        \E entry \in HostEntries(n), pair \in WildcardPairs(n) :
            /\ IsBareSuffix(entry, pair)
            /\ entry.hostname[1] # SuffixOf(pair)
            /\ entry.result = "Created"
            /\ Len(entry.spec.parentRefs) = 1
            /\ entry.name \in DOMAIN routes

\* The rank of a listener's hostname for a hostname: its match.
Rank(appHost, listenerPattern) ==
    IF listenerPattern = None THEN "CATCH_ALL"
    ELSE IF ToLower(appHost) = ToLower(listenerPattern[1]) THEN "EXACT"
    ELSE IF /\ HasPrefix(listenerPattern[1], <<"*", ".">>)
            /\ HasSuffix(ToLower(appHost),
                         <<".">> \o ToLower(TrimPrefix(listenerPattern[1],
                                                       <<"*", ".">>)))
         THEN "WILDCARD"
    ELSE "NONE"

\* The listener of the pair admits routes of the namespace: it is open to
\* all namespaces, or its Gateway is in that namespace.
Admits(pair, namespace) ==
    \/ pair.listener.from = Some(NamespacesFromAll)
    \/ pair.gateway.namespace = namespace

\* The listener names of the ParentRefs of an entry, in their order.
Sections(entry) ==
    [k \in 1..Len(entry.spec.parentRefs) |->
        entry.spec.parentRefs[k].sectionName[1]]

SelectedRanks(n, entry) ==
    {Rank(entry.hostname[1], pair.listener.hostname) :
        pair \in {q \in ListedPairs(n) : Selected(entry, q)}}

\* C10: only the most specific listeners that match a hostname become
\* ParentRefs: with an exact listener selected, no wildcard or
\* hostname-less listener is; with a wildcard listener selected, no
\* hostname-less listener is.
C10_PrioritySelection ==
    \A n \in IngressNames :
        \A entry \in HostEntries(n) :
            /\ "EXACT" \in SelectedRanks(n, entry)
                   => SelectedRanks(n, entry) = {"EXACT"}
            /\ "WILDCARD" \in SelectedRanks(n, entry)
                   => "CATCH_ALL" \notin SelectedRanks(n, entry)

\* The entries the pass of Ingress n has logged, for the routes of
\* hostnames and for the catch-all route.
Entries(n) == {pass[n].applied[k] : k \in 1..Len(pass[n].applied)}

\* The listener has no hostname or a wildcard one: a listener for the
\* catch-all route.
IsCatchAllListener(pair) ==
    \/ pair.listener.hostname = None
    \/ HasPrefix(pair.listener.hostname[1], <<"*">>)

\* C11: a listener yields ParentRefs for an Ingress exactly when it admits
\* the Ingress's namespace: its policy is All, or else (no policy, Same or
\* any other policy) its Gateway is in that namespace.  No route, of a
\* hostname or catch-all, has a ParentRef for a listener that does not
\* admit it; the route of a handled hostname has one for every admitting
\* listener that matches it, and the catch-all route has one for every
\* admitting listener without hostname or with a wildcard one.
C11_NamespaceAccessibility ==
    \A n \in IngressNames :
        pass[n].ingress # None
            => LET namespace == pass[n].ingress[1].namespace
               IN  /\ \A entry \in Entries(n), pair \in ListedPairs(n) :
                          Selected(entry, pair) => Admits(pair, namespace)
                   /\ \A k \in 1..Len(pass[n].hostnames),
                         pair \in ListedPairs(n) :
                          (/\ k < pass[n].next
                           /\ Admits(pair, namespace)
                           /\ Rank(pass[n].hostnames[k],
                                   pair.listener.hostname) # "NONE")
                              => \E entry \in HostEntries(n) :
                                     /\ entry.hostname
                                            = Some(pass[n].hostnames[k])
                                     /\ Selected(entry, pair)
                   /\ \A pair \in ListedPairs(n) :
                          (/\ pass[n].pc = "done"
                           /\ pass[n].hostnames = <<>>
                           /\ pass[n].defaultBackendRef # None
                           /\ ~RequireHostname
                           /\ Admits(pair, namespace)
                           /\ IsCatchAllListener(pair))
                              => \E entry \in Entries(n) :
                                     /\ entry.hostname = None
                                     /\ Selected(entry, pair)

\* The paths of the rules of the Ingress for a hostname, in order.
PathsFor(ingress, hostname) ==
    Concat([k \in 1..Len(ingress.rules) |->
               IF ingress.rules[k].host = hostname
                      /\ ingress.rules[k].http # None
               THEN ingress.rules[k].http[1]
               ELSE <<>>])

\* The match type the mapping gives to a path type.
MatchTypeOf(pathType) ==
    IF pathType = None THEN None
    ELSE IF pathType[1] = PathTypeExact THEN Some(PathMatchExact)
    ELSE Some(PathMatchPathPrefix)

\* C12: the rule made for a path has one match, on the path; its type is
\* exact for path type Exact, prefix for Prefix and for
\* ImplementationSpecific, and unset for a path without path type; its
\* value is the path as the Ingress gives it.
C12_PathTranslation ==
    \A n \in IngressNames :
        \A entry \in HostEntries(n) :
            LET paths == PathsFor(pass[n].ingress[1], entry.hostname[1])
            IN  /\ Len(entry.spec.rules) = Len(paths)
                /\ \A j \in 1..Len(paths) :
                       entry.spec.rules[j].matches
                           = <<[path |-> Some(
                                   [type |-> MatchTypeOf(paths[j].pathType),
                                    value |-> Some(paths[j].path)])]>>

\* The backend is a service backend that names its port.
NamesPort(backend) ==
    /\ backend.resource = None
    /\ backend.service # None
    /\ backend.service[1].port.number = 0
    /\ backend.service[1].port.name # <<>>

\* The Services of the namespace that have the name the backend gives.
ServicesOf(backend, namespace) ==
    {svc \in services : /\ svc.namespace = namespace
                        /\ svc.name = backend.service[1].name}

\* The numbers of the ports of those Services that have the port name the
\* backend gives.
ExposedPorts(backend, namespace) ==
    UNION {{svc.ports[k].port :
               k \in {j \in 1..Len(svc.ports) :
                         svc.ports[j].name = backend.service[1].port.name}} :
              svc \in ServicesOf(backend, namespace)}

\* The route of the entry is stored with the spec of the entry.
Stored(entry) ==
    /\ entry.result \in {"Created", "Updated", "Unchanged"}
    /\ entry.name \in DOMAIN routes
    /\ routes[entry.name].spec = entry.spec

\* C13: for a path whose backend names a port p of a Service, when the
\* Service of that name in the Ingress's namespace has a port named p with
\* number n, the first backend ref of the path's rule has port n, in the
\* spec applied and in the HTTPRoute stored; likewise the mapped default
\* backend.
C13_NamedPortResolved ==
    \A n \in IngressNames :
        pass[n].ingress # None
            => LET ingress == pass[n].ingress[1]
               IN  /\ \A entry \in HostEntries(n) :
                          LET paths == PathsFor(ingress, entry.hostname[1])
                          IN  \A j \in 1..Len(paths), number \in {9, 8080} :
                                  (/\ NamesPort(paths[j].backend)
                                   /\ ExposedPorts(paths[j].backend,
                                                   ingress.namespace)
                                          = {number})
                                      => /\ j <= Len(entry.spec.rules)
                                         /\ entry.spec.rules[j].backendRefs[1]
                                                .port = Some(number)
                                         /\ entry.result # "Error"
                                         /\ Stored(entry)
                   /\ \A number \in {9, 8080} :
                          (/\ ingress.defaultBackend # None
                           /\ pass[n].defaultBackendRef # None
                           /\ NamesPort(ingress.defaultBackend[1])
                           /\ ExposedPorts(ingress.defaultBackend[1],
                                           ingress.namespace) = {number})
                              => pass[n].defaultBackendRef[1].port
                                     = Some(number)

\* The route of a.e.c is stored with port 8080 for the backend that names
\* port h of Service s.
C13_Witness ==
    \E n \in IngressNames :
        \E entry \in HostEntries(n) :
            /\ entry.hostname = Some(HostA)
            /\ NamesPort(PathsFor(pass[n].ingress[1], HostA)[1].backend)
            /\ Stored(entry)
            /\ routes[entry.name].spec.rules[1].backendRefs[1].port
                   = Some(8080)
            /\ routes[entry.name].spec.rules[1].backendRefs[1].name = <<"s">>

\* C14: a backend ref made for a backend that names its port has a port
\* number; when the Service exists and has no port of that name, the pass
\* fails and no route with that backend is applied.
C14_NamedPortOrFailure ==
    \A n \in IngressNames :
        pass[n].ingress # None
            => LET ingress == pass[n].ingress[1]
               IN  /\ \A entry \in HostEntries(n) :
                          LET paths == PathsFor(ingress, entry.hostname[1])
                          IN  \A j \in 1..Len(paths) :
                                  NamesPort(paths[j].backend)
                                      => entry.spec.rules[j].backendRefs[1]
                                             .port # None
                   /\ (\E k \in 1..Len(ingress.rules) :
                          \E j \in 1..Len(ingress.rules[k].http[1]) :
                              LET backend == ingress.rules[k].http[1][j].backend
                              IN  /\ NamesPort(backend)
                                  /\ ServicesOf(backend, ingress.namespace)
                                         # {}
                                  /\ ExposedPorts(backend, ingress.namespace)
                                         = {})
                          => (pass[n].pc = "done" => pass[n].err)

\* Some backend of the Ingress, of a path or the default one, names a
\* port of a Service that its namespace does not have.
ServiceMissing(ingress) ==
    \/ /\ ingress.defaultBackend # None
       /\ NamesPort(ingress.defaultBackend[1])
       /\ ServicesOf(ingress.defaultBackend[1], ingress.namespace) = {}
    \/ \E k \in 1..Len(ingress.rules) :
           \E j \in 1..Len(ingress.rules[k].http[1]) :
               LET backend == ingress.rules[k].http[1][j].backend
               IN  /\ NamesPort(backend)
                   /\ ServicesOf(backend, ingress.namespace) = {}

\* C15: when a backend of the Ingress names a port of a Service that is
\* not found, the pass ends with an error and has written no route,
\* whichever hostname the backend belongs to.
C15_MissingServiceAborts ==
    \A n \in IngressNames :
        (pass[n].ingress # None /\ ServiceMissing(pass[n].ingress[1]))
            => /\ pass[n].writes = 0
               /\ \A entry \in Entries(n) :
                      entry.result \notin {"Created", "Updated"}
               /\ pass[n].pc = "done" => pass[n].err

\* The names of the routes stored that Ingress n owns.
OwnedRoutes(n) ==
    {name \in DOMAIN routes :
        \E k \in 1..Len(routes[name].ownerReferences) :
            /\ routes[name].ownerReferences[k].kind = "Ingress"
            /\ routes[name].ownerReferences[k].name = n}

\* C16: after a pass that ends without error for an Ingress with no rule
\* that has a hostname, with a default backend, RequireHostname being
\* false and some listener for the catch-all route admitting the Ingress,
\* the Ingress owns exactly one route; it has no hostname and one rule,
\* whose only backend ref is the mapped default backend.
C16_DefaultBackendOnly ==
    \A n \in IngressNames :
        (/\ pass[n].pc = "done"
         /\ ~pass[n].err
         /\ pass[n].ingress # None
         /\ NamedHosts(pass[n].ingress[1]) = {}
         /\ pass[n].ingress[1].defaultBackend # None
         /\ ~RequireHostname
         /\ \E pair \in ListedPairs(n) :
                /\ Admits(pair, pass[n].ingress[1].namespace)
                /\ IsCatchAllListener(pair)
         /\ \A entry \in Entries(n) : entry.result # "Skipped")
            => /\ Cardinality(OwnedRoutes(n)) = 1
               /\ \A name \in OwnedRoutes(n) :
                      /\ routes[name].spec.hostnames = <<>>
                      /\ Len(routes[name].spec.rules) = 1
                      /\ routes[name].spec.rules[1].backendRefs
                             = <<pass[n].defaultBackendRef[1]>>

\* C17: every route a pass writes has at most one hostname; an Ingress
\* whose rules name N distinct non-empty hostnames owns at most N routes
\* with a hostname and at most one route without.
C17_RoutesPerHostname ==
    \A n \in IngressNames :
        /\ \A entry \in Entries(n) :
               entry.result \in {"Created", "Updated"}
                   => Len(entry.spec.hostnames) <= 1
        /\ \A name \in OwnedRoutes(n) : Len(routes[name].spec.hostnames) <= 1
        /\ ingresses[n] # None
               => /\ Cardinality({name \in OwnedRoutes(n) :
                                     routes[name].spec.hostnames # <<>>})
                         <= Cardinality(NamedHosts(ingresses[n][1]))
                  /\ Cardinality({name \in OwnedRoutes(n) :
                                     routes[name].spec.hostnames = <<>>}) <= 1


\* A step of a Reconcile pass: a step that is no event of the environment.
PassStep == nenv' = nenv

\* The stored routes the step creates or changes.
Written == {name \in DOMAIN routes' :
               name \notin DOMAIN routes \/ routes'[name] # routes[name]}

\* C18: no step of a Reconcile pass creates, updates or deletes a Gateway,
\* an Ingress or a Service, and none deletes an HTTPRoute; the only writes
\* of a pass are the create or the update of the HTTPRoute that the step's
\* reconcileHTTPRoute call names, with the spec the call was given.
C18_OnlyRouteWrites ==
    [][PassStep =>
          /\ ingresses' = ingresses
          /\ gateways' = gateways
          /\ services' = services
          /\ RequireHostname' = RequireHostname
          /\ DOMAIN routes \subseteq DOMAIN routes'
          /\ \A name \in Written :
                 \E n \in IngressNames :
                     /\ Applies(n)
                     /\ AppliedNow(n).name = name
                     /\ AppliedNow(n).result =
                            (IF name \in DOMAIN routes THEN "Updated"
                             ELSE "Created")
                     /\ routes'[name].spec = AppliedNow(n).spec]_vars

\* A pass has ended after creating an HTTPRoute and updating one, with the
\* Ingress and the Gateways it read still stored.
C18_Witness ==
    \E n \in IngressNames :
        /\ pass[n].pc = "done"
        /\ ingresses[n] = pass[n].ingress
        /\ gateways = pass[n].gateways
        /\ \E entry \in Entries(n) : entry.result = "Created"
        /\ \E entry \in Entries(n) : entry.result = "Updated"


\* The Ingress n, if stored, has been evaluated against the Gateways now
\* stored: its last pass has ended and had read them.
Evaluated(n) ==
    \/ ingresses[n] = None
    \/ pass[n].pc = "done" /\ pass[n].gateways = gateways

\* C19: every create, update or delete of a Gateway puts a Reconcile
\* request in the queue for every Ingress stored at that time, and every
\* stored Ingress is evaluated against the Gateways stored again and again,
\* so after the last change of the Gateways it is evaluated against them.
C19_GatewayWatch ==
    /\ [][gateways' # gateways =>
             \A n \in IngressNames : ingresses[n] # None => n \in queue']_vars
    /\ \A n \in IngressNames : []<>Evaluated(n)


\* The object of this name has been written by an earlier call of
\* reconcileHTTPRoute, or found as wanted.
WrittenBefore(name) ==
    /\ name \in DOMAIN calls
    /\ calls[name].result \in {"Created", "Updated", "Unchanged"}

\* C20: a failed write leaves the routes written before it in the store;
\* in a pass that is tried again after a failed write, with nothing changed,
\* a call of reconcileHTTPRoute writes the object exactly when no earlier
\* call has written it; and when such a pass ends without error, every
\* route it applied is stored with the spec applied, one object for each.
C20_RetryCompletes ==
    /\ [][/\ DOMAIN routes \subseteq DOMAIN routes'
          /\ nenv' # nenv => routes' = routes
          /\ \A n \in IngressNames :
                 (Applies(n) /\ nenv' = nenv /\ nenv > 0) =>
                     IF WrittenBefore(AppliedNow(n).name)
                     THEN AppliedNow(n).result = "Unchanged"
                     ELSE AppliedNow(n).result \in {"Created", "Updated"}]_vars
    /\ [](\A n \in IngressNames :
              (pass[n].pc = "done" /\ ~pass[n].err /\ nenv > 0) =>
                  /\ \A entry \in Entries(n) : Stored(entry)
                  /\ Cardinality(OwnedRoutes(n)) = Len(pass[n].applied))


\* The pass of Ingress n has ended without error, and the Ingress and the
\* Gateways it has read are those stored now.
Converged(n) ==
    /\ pass[n].pc = "done"
    /\ ~pass[n].err
    /\ pass[n].ingress # None
    /\ pass[n].ingress = ingresses[n]
    /\ pass[n].gateways = gateways

\* C21: after a pass of an Ingress has ended without error, with the
\* Ingress and the Gateways as the pass read them, the routes the Ingress
\* owns are exactly the routes the pass applied, each stored with the spec
\* applied: no route is left from a hostname the Ingress had before or from
\* a listener that is gone.
C21_Convergence ==
    \A n \in IngressNames :
        Converged(n) =>
            /\ OwnedRoutes(n) = {entry.name : entry \in Entries(n)}
            /\ \A entry \in Entries(n) : Stored(entry)


\* C22: a route that reconcileHTTPRoute creates is new in the store and
\* carries exactly one owner reference, of kind Ingress, with the name and
\* the UID of the Ingress of the pass and controller = true, and the spec
\* applied; an update writes the spec applied to the object of that name
\* and leaves its owner references, the names stored and every other
\* route as they were.
C22_OwnerAndSpec ==
    [][\A n \in IngressNames :
          Applies(n) =>
              LET entry == AppliedNow(n)
                  ingress == pass[n].ingress[1]
              IN  /\ entry.result = "Created" =>
                         /\ entry.name \notin DOMAIN routes
                         /\ entry.name \in DOMAIN routes'
                         /\ Len(routes'[entry.name].ownerReferences) = 1
                         /\ LET reference ==
                                    routes'[entry.name].ownerReferences[1]
                            IN  /\ reference.kind = "Ingress"
                                /\ reference.name = ingress.name
                                /\ reference.uid = ingress.uid
                                /\ reference.controller = Some(TRUE)
                         /\ routes'[entry.name].spec = entry.spec
                  /\ entry.result = "Updated" =>
                         /\ DOMAIN routes' = DOMAIN routes
                         /\ entry.name \in DOMAIN routes
                         /\ routes'[entry.name].ownerReferences
                                = routes[entry.name].ownerReferences
                         /\ routes'[entry.name].spec = entry.spec
                         /\ routes[entry.name].spec # entry.spec
                         /\ \A name \in DOMAIN routes \ {entry.name} :
                                routes'[name] = routes[name]]_vars

\* A pass has updated a route that an earlier pass created: the route is
\* stored with the spec of the update and its one owner reference.
C22_Witness ==
    \E n \in IngressNames :
        \E entry \in Entries(n) :
            /\ entry.result = "Updated"
            /\ entry.name \in DOMAIN routes
            /\ routes[entry.name].spec = entry.spec
            /\ routes[entry.name].ownerReferences
                   = <<createOwnerReference(pass[n].ingress[1])>>
            /\ routes[entry.name].resourceVersion = 2


\* C23: the ParentRefs of every route a pass applies for a hostname are in
\* strictly ascending order of (group, kind, namespace, name, section
\* name): no two are the same, and they are sorted.
C23_ParentRefsSorted ==
    \A n \in IngressNames :
        \A entry \in HostEntries(n) :
            \A j, k \in 1..Len(entry.spec.parentRefs) :
                j < k => compareParentRef(entry.spec.parentRefs[j],
                                          entry.spec.parentRefs[k]) < 0


\* C24: the rules of every route a pass applies are in ascending order of
\* (path value of the first match, name of the first backend ref).
C24_RulesSorted ==
    \A n \in IngressNames :
        \A entry \in Entries(n) :
            \A j, k \in 1..Len(entry.spec.rules) :
                j < k => compareHTTPRouteRule(entry.spec.rules[j],
                                              entry.spec.rules[k]) <= 0


\* C25: the route a pass applies for a hostname of the Ingress has one
\* backend ref in every rule, the backend of the rule's own path, and its
\* rules are those of the same Ingress without default backend.
C25_NoDefaultInHostRoutes ==
    \A n \in IngressNames :
        \A entry \in HostEntries(n) :
            entry.hostname[1] # <<>> =>
                LET ingress == pass[n].ingress[1]
                    own == matchingRules(ingress.rules, entry.hostname[1])
                IN  /\ \A k \in 1..Len(entry.spec.rules) :
                           Len(entry.spec.rules[k].backendRefs) = 1
                    /\ entry.spec.rules
                           = createHTTPRouteRules(services, ingress.namespace,
                                                  own, None).rules


\* C26: when RequireHostname is true, no pass writes a route without a
\* hostname: every route written names a hostname of a rule of the Ingress,
\* which is not empty, also when the Ingress has only a default backend or
\* only rules without a hostname.
C26_NoCatchAllWhenRequired ==
    RequireHostname =>
        \A n \in IngressNames :
            \A entry \in Entries(n) :
                entry.result \in {"Created", "Updated"} =>
                    /\ entry.spec.hostnames # <<>>
                    /\ \A k \in 1..Len(entry.spec.hostnames) :
                           entry.spec.hostnames[k] # <<>>


\* C27: the backend ref that mapBackendRef returns for a service or a
\* resource has the namespace of the Ingress when CrossNamespace is false,
\* and no namespace when CrossNamespace is true.
C27_CrossNamespacePolicy ==
    \A n \in IngressNames :
        (/\ pass[n].pc = "done"
         /\ ~pass[n].err
         /\ LET backend == pass[n].ingress[1].defaultBackend[1]
            IN  backend.resource # None \/ backend.service # None)
            => pass[n].defaultBackendRef[1].namespace
                   = (IF pass[n].CrossNamespace THEN None
                      ELSE Some(pass[n].ingress[1].namespace))

\* The backend refs of a resource have been mapped for an Ingress of the
\* other namespace without CrossNamespace, with that namespace.
C27_Witness ==
    \E n \in IngressNames :
        /\ pass[n].pc = "done"
        /\ ~pass[n].CrossNamespace
        /\ pass[n].ingress[1].namespace = OtherNamespace
        /\ pass[n].ingress[1].defaultBackend[1].resource # None
        /\ pass[n].defaultBackendRef[1].namespace = Some(OtherNamespace)


\* The backend refs of the rules of a route spec.
BackendRefsOf(spec) ==
    UNION {{spec.rules[k].backendRefs[j] :
               j \in 1..Len(spec.rules[k].backendRefs)} :
              k \in 1..Len(spec.rules)}

NoParentRefs(n, hostname) ==
    findMatchingGateways(pass[n].ingress[1].namespace, hostname,
                         pass[n].gateways) = <<>>

\* No rule is synthesized for the hostname in the pass of Ingress n.
NoRules(n, hostname) ==
    createHTTPRouteRules(services, pass[n].ingress[1].namespace,
                         matchingRules(pass[n].ingress[1].rules, hostname),
                         pass[n].defaultBackendRef).rules = <<>>

\* The pass of Ingress n has an entry for a route of the hostname.
HasEntry(n, hostname) ==
    \E entry \in Entries(n) : entry.hostname = Some(hostname)

\* C29: a pass that has ended after a loop over hostnames has ended without
\* error; it has applied no route for a hostname without candidate
\* ParentRefs or without synthesized rules, and it has applied a route for
\* every other hostname, whether it comes before or after such a hostname.
C29_SkippedHostname ==
    \A n \in IngressNames :
        (pass[n].pc = "done" /\ Len(pass[n].hostnames) > 0) =>
            /\ ~pass[n].err
            /\ \A k \in 1..Len(pass[n].hostnames) :
                   LET hostname == pass[n].hostnames[k]
                   IN  HasEntry(n, hostname) <=>
                           /\ ~NoParentRefs(n, hostname)
                           /\ ~NoRules(n, hostname)
            /\ \A name \in DOMAIN routes :
                   \E entry \in Entries(n) :
                       /\ entry.name = name
                       /\ entry.hostname # None
                       /\ ~NoParentRefs(n, entry.hostname[1])
                       /\ ~NoRules(n, entry.hostname[1])

\* A first pass has ended without error: it has skipped its first hostname,
\* which has rules and no candidate ParentRef, or candidate ParentRefs and
\* no rule, and created the route of its second hostname.
C29_Witness ==
    \E n \in IngressNames :
        /\ pass[n].pc = "done"
        /\ ~pass[n].err
        /\ npasses = 1
        /\ Len(pass[n].hostnames) = 2
        /\ \/ NoParentRefs(n, pass[n].hostnames[1])
              /\ ~NoRules(n, pass[n].hostnames[1])
           \/ ~NoParentRefs(n, pass[n].hostnames[1])
              /\ NoRules(n, pass[n].hostnames[1])
        /\ ~HasEntry(n, pass[n].hostnames[1])
        /\ \E entry \in Entries(n) :
               /\ entry.hostname = Some(pass[n].hostnames[2])
               /\ entry.result = "Created"
               /\ entry.name \in DOMAIN routes


\* The step takes the request for Ingress n from the work queue and starts
\* its pass.
Dequeued(n) ==
    /\ n \in queue
    /\ n \notin queue'
    /\ npasses' = npasses + 1

\* C30: a pass that starts when its Ingress is not stored ends at once
\* without error, and its step writes nothing: no route is applied, and the
\* stored HTTPRoutes, Ingresses, Gateways and Services are as before.
C30_NotFoundIsBenign ==
    [][\A n \in IngressNames :
          (Dequeued(n) /\ ingresses[n] = None) =>
              /\ pass'[n].pc = "done"
              /\ ~pass'[n].err
              /\ pass'[n].writes = 0
              /\ pass'[n].applied = <<>>
              /\ routes' = routes
              /\ ingresses' = ingresses
              /\ gateways' = gateways
              /\ services' = services]_vars

\* The Ingress was deleted after a pass had created its route; the pass for
\* the deletion has found no Ingress and ended, and the route is stored
\* still.
C30_Witness ==
    \E n \in IngressNames :
        /\ ingresses[n] = None
        /\ nenv > 0
        /\ npasses = 2
        /\ pass[n].pc = "done"
        /\ pass[n].ingress = None
        /\ ~pass[n].err
        /\ n \notin queue
        /\ DOMAIN routes # {}


\* The listener of the pair is open to the namespace as
\* isListenerAccessibleFromNamespace decides it: its policy is All, or it
\* is Same or absent and the Gateway is in the namespace.
Accessible(pair, namespace) ==
    \/ pair.listener.from = Some(NamespacesFromAll)
    \/ /\ pair.listener.from \in {None, Some(NamespacesFromSame)}
       /\ pair.gateway.namespace = namespace

\* The listener of the pair has a hostname that is not a wildcard.
IsExactListener(pair) ==
    /\ pair.listener.hostname # None
    /\ ~HasPrefix(pair.listener.hostname[1], <<"*">>)

\* The pass of Ingress n has ended on the branch of the Ingress without
\* hostnames and with a default backend.
DefaultBackendOnly(n) ==
    /\ pass[n].pc = "done"
    /\ pass[n].ingress # None
    /\ pass[n].gateways # <<>>
    /\ pass[n].hostnames = <<>>
    /\ pass[n].defaultBackendRef # None
    /\ ~RequireHostname

\* C31: the route without hostname that a pass applies for a default
\* backend has a ParentRef for a listed listener exactly when the listener
\* is accessible from the Ingress's namespace and has no hostname or a
\* wildcard one, never for a listener with an exact hostname; and the pass
\* applies that route whenever there is such a listener.
C31_CatchAllListeners ==
    \A n \in IngressNames :
        /\ \A entry \in Entries(n), pair \in ListedPairs(n) :
               entry.hostname = None =>
                   /\ Selected(entry, pair) <=>
                          /\ Accessible(pair, pass[n].ingress[1].namespace)
                          /\ ~IsExactListener(pair)
                   /\ Len(entry.spec.parentRefs)
                          = Cardinality({p \in ListedPairs(n) :
                                            Selected(entry, p)})
        /\ DefaultBackendOnly(n) =>
               ((\E entry \in Entries(n) : entry.hostname = None)
                    <=> \E pair \in ListedPairs(n) :
                            /\ Accessible(pair, pass[n].ingress[1].namespace)
                            /\ ~IsExactListener(pair))

\* A pass has created the route without hostname from a Gateway with three
\* accessible listeners: the route is stored with ParentRefs for the
\* wildcard listener and for the one without hostname, and none for the
\* listener of a.e.c.
C31_Witness ==
    \E n \in IngressNames :
        \E entry \in Entries(n) :
            /\ entry.hostname = None
            /\ entry.result = "Created"
            /\ entry.name \in DOMAIN routes
            /\ Sections(entry) = <<<<"w">>, <<"c">>>>
            /\ Cardinality({pair \in ListedPairs(n) :
                               /\ Accessible(pair,
                                             pass[n].ingress[1].namespace)
                               /\ IsExactListener(pair)}) = 1


\* The rules of a route spec that have a match, in order.
PathRulesOf(spec) ==
    LET hasMatch(rule) == rule.matches # <<>>
    IN  SelectSeq(spec.rules, hasMatch)

\* The backend ref is the one of the Ingress backend: the resource of its
\* group, kind and name, or the service of its name, with the port number
\* the backend gives.
RefersTo(ref, backend) ==
    IF backend.resource # None
    THEN /\ ref.group = backend.resource[1].apiGroup
         /\ ref.kind = Some(backend.resource[1].kind)
         /\ ref.name = backend.resource[1].name
    ELSE /\ ref.kind = Some(ServiceKind)
         /\ ref.name = backend.service[1].name
         /\ backend.service[1].port.number # 0
                => ref.port = Some(backend.service[1].port.number)

\* C32: the route a pass applies for a hostname has, for the paths of all
\* the Ingress's rules of that hostname taken in order, one rule each with
\* one match, the match carrying the path's value and the rule's first
\* backend ref being the path's backend; no other rule of the route has a
\* match, so no path of another hostname is in it.  The pass applies one
\* route for the hostname.
C32_OneRulePerPath ==
    \A n \in IngressNames :
        /\ \A entry \in HostEntries(n) :
               LET paths == PathsFor(pass[n].ingress[1], entry.hostname[1])
                   rules == PathRulesOf(entry.spec)
               IN  /\ Len(rules) = Len(paths)
                   /\ \A k \in 1..Len(paths) :
                          /\ Len(rules[k].matches) = 1
                          /\ rules[k].matches[1].path # None
                          /\ rules[k].matches[1].path[1].value
                                 = Some(paths[k].path)
                          /\ Len(rules[k].backendRefs) >= 1
                          /\ RefersTo(rules[k].backendRefs[1],
                                      paths[k].backend)
                   /\ entry.spec.hostnames = <<entry.hostname[1]>>
        /\ \A j, k \in 1..Len(pass[n].applied) :
               (pass[n].applied[j].hostname = pass[n].applied[k].hostname)
                   => j = k

\* A pass has created the route of a.e.c from two rules of a.e.c, of two
\* paths and of one, with a rule of another hostname in the Ingress: the
\* stored route has the three paths' rules.
C32_Witness ==
    \E n \in IngressNames :
        \E entry \in HostEntries(n) :
            /\ entry.hostname = Some(HostA)
            /\ entry.result = "Created"
            /\ entry.name \in DOMAIN routes
            /\ routes[entry.name].spec = entry.spec
            /\ Len(matchingRules(pass[n].ingress[1].rules, HostA)) = 2
            /\ Len(PathRulesOf(entry.spec)) = 3
            /\ Len(PathsFor(pass[n].ingress[1], HostA)) = 3


\* The listener of the pair is accessible from the Ingress's namespace and
\* its hostname matches the hostname.
Mounts(pair, namespace, hostname) ==
    /\ Accessible(pair, namespace)
    /\ Rank(hostname, pair.listener.hostname) # "NONE"

\* C33: a pass that starts reads the Gateways as they are stored then, so
\* a listener added before it is among them; and when the pass has ended,
\* every hostname of the Ingress that a listed listener mounts has a route
\* applied with a ParentRef for that listener: the pass has created the
\* route when it found none under its name, and the route is stored with
\* that ParentRef.
C33_BecomesMounted ==
    /\ [][\A n \in IngressNames :
             (Dequeued(n) /\ ingresses[n] # None) =>
                 /\ pass'[n].gateways = gateways
                 /\ pass'[n].ingress = ingresses[n]]_vars
    /\ [](\A n \in IngressNames :
              (pass[n].pc = "done" /\ pass[n].ingress # None) =>
                  \A k \in 1..Len(pass[n].hostnames),
                     pair \in ListedPairs(n) :
                      Mounts(pair, pass[n].ingress[1].namespace,
                             pass[n].hostnames[k]) =>
                          \E entry \in HostEntries(n) :
                              /\ entry.hostname = Some(pass[n].hostnames[k])
                              /\ Selected(entry, pair)
                              /\ entry.found = None =>
                                     /\ entry.result = "Created"
                                     /\ entry.name \in DOMAIN routes
                                     /\ routes[entry.name].spec = entry.spec)

\* After one change, of the Gateways, the second pass of the Ingress of
\* x.e.c has created its route for a listener stored now: the only route
\* stored.  The first pass, before the change or with the Gateways of
\* before, found no listener for x.e.c and wrote nothing.
C33_Witness ==
    \E n \in IngressNames :
        /\ nenv = 1
        /\ npasses = 2
        /\ pass[n].pc = "done"
        /\ ~pass[n].err
        /\ pass[n].gateways = gateways
        /\ pass[n].hostnames = <<HostX>>
        /\ Cardinality(DOMAIN routes) = 1
        /\ \E entry \in HostEntries(n) :
               /\ entry.hostname = Some(HostX)
               /\ entry.found = None
               /\ entry.result = "Created"
               /\ entry.name \in DOMAIN routes
               /\ \E pair \in ListedPairs(n) :
                      /\ Mounts(pair, pass[n].ingress[1].namespace, HostX)
                      /\ Selected(entry, pair)


\* The route has an owner reference to an Ingress of the name and kind of
\* the owner, with another UID.
LeftByOldIncarnation(route, owner) ==
    /\ Len(route.ownerReferences) = 1
    /\ route.ownerReferences[1].apiVersion = owner.apiVersion
    /\ route.ownerReferences[1].kind = owner.kind
    /\ route.ownerReferences[1].name = owner.name
    /\ route.ownerReferences[1].uid # owner.uid

\* C34: when reconcileHTTPRoute finds a route whose owner reference has the
\* apiVersion, the kind and the name of the pass's Ingress and another UID,
\* it treats the route as owned: it updates the route exactly when the spec
\* differs, the stored route gets the spec of the call, and its owner
\* reference stays as it was, with the old UID.
C34_OwnershipIgnoresUID ==
    [][\A n \in IngressNames :
          (/\ Applies(n)
           /\ AppliedNow(n).found # None
           /\ LeftByOldIncarnation(AppliedNow(n).found[1], pass[n].owner[1]))
              => LET entry == AppliedNow(n)
                 IN  /\ entry.result
                            = (IF entry.found[1].spec = entry.spec
                               THEN "Unchanged" ELSE "Updated")
                     /\ entry.name \in DOMAIN routes'
                     /\ routes'[entry.name].spec = entry.spec
                     /\ routes'[entry.name].ownerReferences
                            = entry.found[1].ownerReferences]_vars

\* The pass of the second incarnation of an Ingress has updated the route
\* the first one created: the route is stored with the spec of the second
\* and the owner reference, with the UID, of the first.
C34_Witness ==
    \E n \in IngressNames :
        \E entry \in Entries(n) :
            /\ pass[n].pc = "done"
            /\ pass[n].ingress[1].uid = "uid-2"
            /\ ingresses[n] = pass[n].ingress
            /\ entry.result = "Updated"
            /\ entry.name \in DOMAIN routes
            /\ routes[entry.name].spec = entry.spec
            /\ LeftByOldIncarnation(routes[entry.name], pass[n].owner[1])
            /\ routes[entry.name].ownerReferences[1].uid = "uid-1"


\* The pass of Ingress n has ended for an Ingress without rules and with a
\* default backend, RequireHostname being false, and no listener it listed
\* is accessible and without hostname or with a wildcard one.
NoCatchAllListener(n) ==
    /\ pass[n].pc = "done"
    /\ pass[n].ingress # None
    /\ pass[n].ingress[1].rules = <<>>
    /\ pass[n].ingress[1].defaultBackend # None
    /\ ~RequireHostname
    /\ ~\E pair \in ListedPairs(n) :
           /\ Accessible(pair, pass[n].ingress[1].namespace)
           /\ ~IsExactListener(pair)

\* The pass of Ingress n has ended, and no listener it listed is a
\* candidate for any of the hostnames of the Ingress's rules.
NoCandidateListener(n) ==
    /\ pass[n].pc = "done"
    /\ pass[n].ingress # None
    /\ pass[n].ingress[1].rules # <<>>
    /\ \A k \in 1..Len(pass[n].ingress[1].rules) :
           findMatchingGateways(pass[n].ingress[1].namespace,
                                pass[n].ingress[1].rules[k].host,
                                pass[n].gateways) = <<>>

\* The pass of Ingress n has applied no route, and no route is stored.
WroteNothing(n) ==
    /\ pass[n].applied = <<>>
    /\ pass[n].writes = 0
    /\ routes = <<>>

RouteOf(route, n) ==
    /\ route.ownerReferences = <<createOwnerReference(PairIngress(n))>>
    /\ \E g \in SameGateways :
           /\ ~PairSpec(n, <<g>>).err
           /\ route.spec = PairSpec(n, <<g>>).spec

\* The Ingress of the two that the owner reference of the route names.
OwnerOf(route) ==
    CHOOSE n \in PairNames :
        route.ownerReferences[1].name = PairIngress(n).name

\* C36: however the passes of the two Ingresses interleave, the route
\* stored under their common name has the owner reference and the whole
\* spec of one of them; no step changes its owner or gives it the spec of
\* the other; and the call of the Ingress that does not own it writes
\* nothing and ends as a skip, or as an error of the Create when it had
\* read no route.
C36_OneOwnerUnderInterleaving ==
    /\ [][\A name \in DOMAIN routes :
             /\ name \in DOMAIN routes'
             /\ routes'[name].ownerReferences = routes[name].ownerReferences
             /\ \A n \in PairNames :
                    (Applies(n) /\ n # OwnerOf(routes[name])
                         /\ AppliedNow(n).name = name)
                        => /\ routes' = routes
                           /\ AppliedNow(n).result
                                  = (IF AppliedNow(n).found = None
                                     THEN "Error" ELSE "Skipped")
                           /\ pass'[n].pc = "done"
                           /\ pass'[n].err
                                  = (AppliedNow(n).result = "Error")]_vars
    /\ [](\A name \in DOMAIN routes :
              \E n \in PairNames : RouteOf(routes[name], n))

\* Both passes had read no route before either wrote: one has created the
\* route, which is stored as its own, and the other has ended in the error
\* of its Create.
C36_Witness ==
    \E n, m \in PairNames :
        /\ n # m
        /\ pass[n].pc = "done"
        /\ pass[m].pc = "done"
        /\ ~pass[n].err
        /\ pass[m].err
        /\ \E entry \in Entries(n), other \in Entries(m) :
               /\ entry.name = other.name
               /\ entry.found = None
               /\ other.found = None
               /\ entry.result = "Created"
               /\ other.result = "Error"
               /\ entry.name \in DOMAIN routes
               /\ RouteOf(routes[entry.name], n)
               /\ routes[entry.name].spec = entry.spec
               /\ routes[entry.name].spec # other.spec

====
